---------------------------- MODULE Spec2Model ----------------------------
(***************************************************************************)
(* WhatNowAI: the multi-source event aggregation engine.                   *)
(*                                                                         *)
(* The module models UnifiedEventsService (fan-out over the providers,     *)
(* deduplication, ranking, final filtering), the OpenAIService ranker it   *)
(* delegates to, the ranker of TicketmasterService, and the text           *)
(* normalisation behind the identity key; and, around the engine, the      *)
(* coordinate check, the /map/events route over the shared MappingService, *)
(* the background search and the interest profile.                         *)
(*                                                                         *)
(* Conventions                                                             *)
(*   - Python str values that the code inspects character by character     *)
(*     (name, venue, date) are sequences of one-character strings.         *)
(*   - Python objects live in a heap: a list is a sequence of object       *)
(*     identities, attributes are read through the heap, so an in-place    *)
(*     attribute write is seen through every list that holds the object.   *)
(*   - Scores are integers in thousandths (0.5 is 500); completeness is    *)
(*     counted in half points (0.5 is 1).                                  *)
(***************************************************************************)
EXTENDS Integers, Sequences, FiniteSets, TLC

VARIABLES
    pc,            \* position of search_events: "start","fanout","rank","final","done","raised"
    task,          \* provider -> its future: status "running" | "completed", and the result
    taken,         \* providers whose future the as_completed loop has consumed
    clock,         \* seconds since the provider tasks were submitted
    all_events,    \* search_events: all_events
    deduplicated_events,
    ranked_events, \* ai_results['ranked_events']
    final_events,  \* the list search_events returns
    heap,          \* object identity -> Event attributes
    env,           \* the request and its collaborators (providers' answers, ranker mode, activity)
    dd,            \* deduplication bench: input list, first and second resolution
    nm,            \* normalisation bench: a name, a variant of it, the resolution of the pair
    rk,            \* ranking bench: candidate list, ranker response, ranker output
    web            \* the parts outside the engine: helpers, the /map/events route, profiles

vars == <<pc, task, taken, clock, all_events, deduplicated_events, ranked_events,
          final_events, heap, env, dd, nm, rk, web>>

-----------------------------------------------------------------------------
(* Bounds of the model                                                     *)

MaxNameLen == 3          \* longest name examined by the normalisation bench
MaxDedupLen == 3         \* longest list examined by the deduplication bench
MaxClock == 35           \* the clock stops counting here
TickSeconds == 10        \* seconds that pass in one step of the clock
MaxCandidates == 2       \* longest short list handed to the ranker

-----------------------------------------------------------------------------
(* Characters and strings                                                  *)

UpperLetters == <<"A","B","C","D","E","F","G","H","I","J","K","L","M",
                  "N","O","P","Q","R","S","T","U","V","W","X","Y","Z">>
LowerLetters == <<"a","b","c","d","e","f","g","h","i","j","k","l","m",
                  "n","o","p","q","r","s","t","u","v","w","x","y","z">>
Digits == {"0","1","2","3","4","5","6","7","8","9"}

Range(s) == { s[i] : i \in DOMAIN s }

UpperSet == Range(UpperLetters)
LowerSet == Range(LowerLetters)

LowerOf == [c \in UpperSet |->
               LowerLetters[CHOOSE i \in DOMAIN UpperLetters : UpperLetters[i] = c]]

\* str.lower() on one character
LowerChar(c) == IF c \in UpperSet THEN LowerOf[c] ELSE c

Lower(s) == [i \in DOMAIN s |-> LowerChar(s[i])]

SpaceChars == {" ", "\t", "\n"}
WordChars == UpperSet \cup LowerSet \cup Digits \cup {"_"}
KeptChars == LowerSet \cup Digits \cup SpaceChars

\* regex \s
IsSpace(c) == c \in SpaceChars

\* regex \w (what \b is defined by)
IsWordChar(c) == c \in WordChars

\* the characters [^a-z0-9\s] does not match
IsKeptChar(c) == c \in KeptChars

RECURSIVE LStrip(_)
LStrip(s) == IF s # <<>> /\ IsSpace(Head(s)) THEN LStrip(Tail(s)) ELSE s

RECURSIVE RStrip(_)
RStrip(s) ==
    IF s # <<>> /\ IsSpace(s[Len(s)]) THEN RStrip(SubSeq(s, 1, Len(s) - 1)) ELSE s

\* str.strip()
Strip(s) == RStrip(LStrip(s))

-----------------------------------------------------------------------------
(* _normalize_event_name                                                   *)

Articles == { <<"t","h","e">>, <<"a">>, <<"a","n">> }

\* first position after the run of word characters that starts at i
RECURSIVE WordEnd(_, _)
WordEnd(s, i) ==
    IF i <= Len(s) /\ IsWordChar(s[i]) THEN WordEnd(s, i + 1) ELSE i

\* re.sub(r'\b(the|a|an)\b', '', name, flags=re.IGNORECASE), scanning from i:
\* a match is a maximal run of word characters that spells an article
RECURSIVE RemoveArticlesFrom(_, _)
RemoveArticlesFrom(s, i) ==
    IF i > Len(s) THEN <<>>
    ELSE IF IsWordChar(s[i])
         THEN LET j == WordEnd(s, i)
                  w == SubSeq(s, i, j - 1)
              IN  (IF Lower(w) \in Articles THEN <<>> ELSE w)
                      \o RemoveArticlesFrom(s, j)
         ELSE <<s[i]>> \o RemoveArticlesFrom(s, i + 1)

RemoveArticles(s) == RemoveArticlesFrom(s, 1)

\* re.sub(r'[^a-z0-9\s]', '', name)
RemoveNonAlnum(s) == SelectSeq(s, IsKeptChar)

\* re.sub(r'\s+', ' ', name)
RECURSIVE CollapseSpaces(_)
CollapseSpaces(s) ==
    IF s = <<>> THEN <<>>
    ELSE IF IsSpace(Head(s))
         THEN <<" ">> \o CollapseSpaces(LStrip(s))
         ELSE <<Head(s)>> \o CollapseSpaces(Tail(s))

_normalize_event_name(name) ==
    Strip(CollapseSpaces(RemoveNonAlnum(RemoveArticles(name))))

-----------------------------------------------------------------------------
(* Event objects                                                           *)

\* personalization_factors.get(key, default)
FactorGet(factors, key, default) ==
    IF \E f \in factors : f.key = key
    THEN (CHOOSE f \in factors : f.key = key).value
    ELSE default

\* Event(...): the dataclass constructor with its defaults. `source` is not a
\* field of the dataclass; "" stands for an object without that attribute.
NewEvent(id, name, venue, date, time, description, image_url, address, url) ==
    [ id |-> id, name |-> name, url |-> url, date |-> date, time |-> time,
      venue |-> venue, address |-> address, image_url |-> image_url,
      description |-> description, category |-> <<"m","u","s","i","c">>,
      source |-> "",
      price_min |-> "none", price_max |-> "none",
      relevance_score |-> 0, personalization_factors |-> {},
      recommendation_reason |-> "" ]

\* 'ticketmaster' in event_id.  An id is a prefix (tag) and a number:
\* TicketmasterService uses the upstream id as it is (tag ""), AllEventsService
\* writes "allevents_" before it; only the tag "ticketmaster_" spells the word
IdNamesTicketmaster(id) == id.tag = "ticketmaster_"

-----------------------------------------------------------------------------
(* UnifiedEventsService: deduplication                                     *)

\* completeness in half points (0.5 is 1)
_calculate_completeness_score(event) ==
      (IF event.name # <<>> THEN 2 ELSE 0)
    + (IF event.description # <<>> THEN 2 ELSE 0)
    + (IF event.image_url # "" THEN 1 ELSE 0)
    + (IF event.venue # <<"T","B","A">> THEN 1 ELSE 0)
    + (IF event.address # "" THEN 1 ELSE 0)
    + (IF event.time # "TBA" THEN 1 ELSE 0)
    + (IF event.url # "" THEN 1 ELSE 0)
    + (IF IdNamesTicketmaster(event.id) \/ event.source = "ticketmaster"
       THEN 1 ELSE 0)

\* a mutation of _should_replace_event: a tie replaces too
ReplaceOnTie(existing, new) ==
    _calculate_completeness_score(new) >= _calculate_completeness_score(existing)

_should_replace_event(existing, new) ==
    _calculate_completeness_score(new) > _calculate_completeness_score(existing)

_create_event_key(event) ==
    LET name == Strip(Lower(event.name))
        venue == Strip(Lower(event.venue))
        date == Strip(event.date)
    IN  _normalize_event_name(name) \o <<"|">> \o venue \o <<"|">> \o date

\* list.remove(x): drops the first element that is x or equals x
RECURSIVE ListRemove(_, _, _)
ListRemove(list, x, h) ==
    IF list = <<>> THEN <<>>
    ELSE IF Head(list) = x \/ h[Head(list)] = h[x]
         THEN Tail(list)
         ELSE <<Head(list)>> \o ListRemove(Tail(list), x, h)

\* seen_events[event_key] = event, for a key not seen before
SeenWith(seen, key, event) == (key :> event) @@ seen

\* a mutation of SeenReplaced: the replacement is not recorded
SeenStale(seen, key, event) == seen

\* seen_events[event_key] = event, for the event that replaces a duplicate
SeenReplaced(seen, key, event) == (key :> event) @@ seen

\* the loop of _deduplicate_events from events[i] on
RECURSIVE DedupLoop(_, _, _, _, _)
DedupLoop(events, i, seen, deduplicated, h) ==
    IF i > Len(events) THEN deduplicated
    ELSE LET event == events[i]
             event_key == _create_event_key(h[event])
         IN  IF event_key \notin DOMAIN seen
             THEN DedupLoop(events, i + 1, SeenWith(seen, event_key, event),
                            Append(deduplicated, event), h)
             ELSE LET existing_event == seen[event_key]
                  IN  IF _should_replace_event(h[existing_event], h[event])
                      THEN DedupLoop(events, i + 1,
                                     SeenReplaced(seen, event_key, event),
                                     Append(ListRemove(deduplicated, existing_event, h),
                                            event),
                                     h)
                      ELSE DedupLoop(events, i + 1, seen, deduplicated, h)

_deduplicate_events(events, h) == DedupLoop(events, 1, <<>>, <<>>, h)

-----------------------------------------------------------------------------
(* Values the variables take while the part they belong to is not running  *)

BenchIdle == [pc |-> "idle"]

PipelineIdle ==
    /\ pc = "idle"
    /\ task = <<>>
    /\ taken = {}
    /\ clock = 0
    /\ all_events = <<>>
    /\ deduplicated_events = <<>>
    /\ ranked_events = <<>>
    /\ final_events = <<>>
    /\ env = <<>>
    /\ web = BenchIdle

PipelineVars == <<pc, task, taken, clock, all_events, deduplicated_events,
                  ranked_events, final_events, env, web>>

-----------------------------------------------------------------------------
(* Deduplication bench: _deduplicate_events on lists of provider events    *)

TheGig == <<"T","h","e"," ","G","i","g">>
Gig == <<"G","i","g","!">>
Jam == <<"J","a","m">>
Hall == <<"H","a","l","l">>
HallPadded == <<" ","h","a","l","l">>
July1 == <<"7","-","1">>
LiveText == <<"l","i","v","e">>

\* a record as sparse as an adapter can emit it
BareEvent(name, venue) ==
    NewEvent([tag |-> "allevents_", n |-> 1], name, venue, July1, "TBA", <<>>, "", "", "")

\* the same with a description
DescribedEvent(name, venue) ==
    NewEvent([tag |-> "allevents_", n |-> 2], name, venue, July1, "TBA", LiveText, "", "", "")

\* the same with a description, an image, a time and a link
FullEvent(name, venue) ==
    NewEvent([tag |-> "", n |-> 3], name, venue, July1, "19:00", LiveText, "img", "", "link")

\* the record TicketmasterService emits with the same fields: its id is the
\* upstream id
FromTicketmaster(event) == [event EXCEPT !.id = [tag |-> "", n |-> @.n + 10]]

DedupEvents ==
    UNION { { BareEvent(n, Hall), DescribedEvent(n, Hall), FullEvent(n, Hall),
              FromTicketmaster(DescribedEvent(n, Hall)) }
            : n \in { TheGig, Gig } }
    \cup { DescribedEvent(Gig, HallPadded), DescribedEvent(Jam, Hall) }

InitDedup ==
    /\ PipelineIdle
    /\ nm = BenchIdle
    /\ rk = BenchIdle
    /\ \E n \in 0..MaxDedupLen :
          /\ heap \in [1..n -> DedupEvents]
          /\ dd = [pc |-> "input", in |-> [i \in 1..n |-> i],
                   out |-> <<>>, again |-> <<>>]

Resolve ==
    /\ dd.pc = "input"
    /\ dd' = [dd EXCEPT !.pc = "once", !.out = _deduplicate_events(dd.in, heap)]
    /\ UNCHANGED <<PipelineVars, heap, nm, rk>>

ResolveAgain ==
    /\ dd.pc = "once"
    /\ dd' = [dd EXCEPT !.pc = "twice", !.again = _deduplicate_events(dd.out, heap)]
    /\ UNCHANGED <<PipelineVars, heap, nm, rk>>

NextDedup == Resolve \/ ResolveAgain

SpecDedup == InitDedup /\ [][NextDedup]_vars

\* the members of list that share list[i]'s identity key
Group(list, i, h) ==
    { j \in DOMAIN list :
        _create_event_key(h[list[j]]) = _create_event_key(h[list[i]]) }

\* the first member of list[i]'s group that has the group's highest completeness
FirstBest(list, i, h) ==
    CHOOSE j \in Group(list, i, h) :
        /\ \A k \in Group(list, i, h) :
              _calculate_completeness_score(h[list[k]])
                  <= _calculate_completeness_score(h[list[j]])
        /\ \A k \in Group(list, i, h) :
              _calculate_completeness_score(h[list[k]])
                  = _calculate_completeness_score(h[list[j]]) => j <= k

Keys(list, h) == { _create_event_key(h[list[i]]) : i \in DOMAIN list }

\* C6 (the part about the output): the resolved list holds exactly one event
\* for each identity key of the input; no key twice, no key lost.
C6_OnePerKey ==
    dd.pc \in {"once", "twice"} =>
        /\ Keys(dd.out, heap) = Keys(dd.in, heap)
        /\ \A i, j \in DOMAIN dd.out :
              _create_event_key(heap[dd.out[i]]) = _create_event_key(heap[dd.out[j]])
                  => i = j

\* C7: in every group of input events that share an identity key, the event
\* kept is the one with the highest completeness score, and among those tied
\* for the highest score the one seen first.
C7_KeepsFirstBest ==
    dd.pc \in {"once", "twice"} =>
        \A i \in DOMAIN dd.in :
            Range(dd.out) \cap { dd.in[j] : j \in Group(dd.in, i, heap) }
                = { dd.in[FirstBest(dd.in, i, heap)] }

\* C7 witness: a group of three in which the best score is tied between two
\* members and the first of them is not the first member of the group.
C7_Witness ==
    /\ dd.pc = "once"
    /\ \E i \in DOMAIN dd.in :
          /\ Cardinality(Group(dd.in, i, heap)) >= 3
          /\ FirstBest(dd.in, i, heap) # i
          /\ i < FirstBest(dd.in, i, heap)
          /\ \E k \in Group(dd.in, i, heap) :
                /\ k > FirstBest(dd.in, i, heap)
                /\ _calculate_completeness_score(heap[dd.in[k]])
                     = _calculate_completeness_score(heap[dd.in[FirstBest(dd.in, i, heap)]])

\* C8: resolving an already resolved list changes nothing: the same events
\* in the same order.
C8_Idempotent == dd.pc = "twice" => dd.again = dd.out

\* C8 witness: the second resolution ran on a list the first one had both
\* shortened and reordered.
C8_Witness ==
    /\ dd.pc = "twice"
    /\ Len(dd.out) >= 2
    /\ Len(dd.out) < Len(dd.in)
    /\ dd.out # SubSeq(dd.in, 1, Len(dd.out))
    /\ \E i \in DOMAIN dd.out : dd.out[i] # dd.in[i]

\* the adapter an event came from, read off the id the adapter gave it
IsTicketmasterRecord(event) == event.id.tag = ""
IsAllEventsRecord(event) == event.id.tag = "allevents_"

\* the completeness the fields alone give, whatever the provider
FieldCompleteness(event) ==
    _calculate_completeness_score([event EXCEPT !.id = [tag |-> "", n |-> 0],
                                                !.source = ""])

\* C24: of two duplicates with the same field completeness, one emitted by
\* the Ticketmaster adapter and one by the AllEvents adapter, the
\* Ticketmaster record is the one kept, whichever came first.
C24_TicketmasterKept ==
    dd.pc = "once" =>
        \A i, j \in DOMAIN dd.in :
            (/\ Group(dd.in, i, heap) = {i, j} /\ i # j
             /\ IsTicketmasterRecord(heap[dd.in[i]])
             /\ IsAllEventsRecord(heap[dd.in[j]])
             /\ FieldCompleteness(heap[dd.in[i]]) = FieldCompleteness(heap[dd.in[j]]))
            => /\ dd.in[i] \in Range(dd.out)
               /\ dd.in[j] \notin Range(dd.out)

\* C24 (what the score is for the ids the adapters give): no record of
\* either adapter scores more than its fields give it.
C24_NoBonusForAdapterIds ==
    \A o \in DOMAIN heap :
        (IsTicketmasterRecord(heap[o]) \/ IsAllEventsRecord(heap[o])) =>
            _calculate_completeness_score(heap[o]) = FieldCompleteness(heap[o])

-----------------------------------------------------------------------------
(* Normalisation bench: two records of one event whose names differ only   *)
(* by a leading article, by punctuation or by the amount of whitespace,    *)
(* resolved by _deduplicate_events                                         *)

NormAlphabet == {"a", "b", " ", "-"}
Punctuation == {"-", "!"}
LeadingArticles == { <<"T","h","e">>, <<"a">>, <<"A","n">> }

BaseNames == UNION { [1..k -> NormAlphabet] : k \in 1..MaxNameLen }

\* s with character c put in front of position i
InsertAt(s, i, c) == SubSeq(s, 1, i - 1) \o <<c>> \o SubSeq(s, i, Len(s))

InitNorm ==
    /\ PipelineIdle
    /\ dd = BenchIdle
    /\ rk = BenchIdle
    /\ heap = <<>>
    /\ \E base \in BaseNames :
          nm = [pc |-> "base", base |-> base, variant |-> base,
                edit |-> "none", out |-> <<>>]

\* the second provider lists the event with an article in front of its name
AddLeadingArticle ==
    /\ nm.pc = "base"
    /\ \E a \in LeadingArticles :
          nm' = [nm EXCEPT !.pc = "variant", !.edit = "article",
                           !.variant = a \o <<" ">> \o nm.base]
    /\ UNCHANGED <<PipelineVars, heap, dd, rk>>

\* the second provider punctuates the name differently
InsertPunctuation ==
    /\ nm.pc = "base"
    /\ \E i \in 1..(Len(nm.base) + 1), c \in Punctuation :
          nm' = [nm EXCEPT !.pc = "variant", !.edit = "punctuation",
                           !.variant = InsertAt(nm.base, i, c)]
    /\ UNCHANGED <<PipelineVars, heap, dd, rk>>

\* the second provider pads the name or widens a gap between its words
WidenWhitespace ==
    /\ nm.pc = "base"
    /\ \E i \in 1..(Len(nm.base) + 1) :
          /\ IF i = 1 \/ i = Len(nm.base) + 1
             THEN TRUE
             ELSE IsSpace(nm.base[i]) \/ IsSpace(nm.base[i - 1])
          /\ nm' = [nm EXCEPT !.pc = "variant", !.edit = "whitespace",
                              !.variant = InsertAt(nm.base, i, " ")]
    /\ UNCHANGED <<PipelineVars, heap, dd, rk>>

\* both records, same venue and date, go through _deduplicate_events
ResolvePair ==
    /\ nm.pc = "variant"
    /\ heap' = << DescribedEvent(nm.base, Hall), DescribedEvent(nm.variant, Hall) >>
    /\ nm' = [nm EXCEPT !.pc = "resolved",
                        !.out = _deduplicate_events(<<1, 2>>, heap')]
    /\ UNCHANGED <<PipelineVars, dd, rk>>

NextNorm ==
    AddLeadingArticle \/ InsertPunctuation \/ WidenWhitespace \/ ResolvePair

SpecNorm == InitNorm /\ [][NextNorm]_vars

\* C6: two records whose names differ only by a leading article, by
\* punctuation or by whitespace, with the same venue and date, have the same
\* identity key, so the resolved list holds exactly one event for them.
C6_VariantsCollide ==
    nm.pc = "resolved" =>
        /\ _create_event_key(heap[1]) = _create_event_key(heap[2])
        /\ Len(nm.out) = 1

\* C6 (the variants the code does merge): a leading article and a different
\* amount of whitespace never change the identity key.
C6_ArticleAndWhitespaceCollide ==
    (nm.pc = "resolved" /\ nm.edit \in {"article", "whitespace"}) =>
        /\ _create_event_key(heap[1]) = _create_event_key(heap[2])
        /\ Len(nm.out) = 1

-----------------------------------------------------------------------------
(* Lists, sorting, word matching                                           *)

Min(a, b) == IF a <= b THEN a ELSE b

\* list[:k]
Take(list, k) == SubSeq(list, 1, Min(k, Len(list)))

\* tuple comparison of two-component sort keys
KeyGreater(a, b) == a[1] > b[1] \/ (a[1] = b[1] /\ a[2] > b[2])

\* the elements of list whose key is in keys, greatest key first, those of
\* one key in the order the list has them
RECURSIVE DescendingByKey(_, _, _)
DescendingByKey(list, key, keys) ==
    IF keys = {} THEN <<>>
    ELSE LET top == CHOOSE k \in keys : \A j \in keys : ~KeyGreater(j, k)
         IN  SelectSeq(list, LAMBDA x : key[x] = top)
                 \o DescendingByKey(list, key, keys \ {top})

\* sorted(list, key=..., reverse=True): descending and stable
StableSortDesc(list, key) ==
    DescendingByKey(list, key, { key[list[i]] : i \in DOMAIN list })

\* the leading run of non-space characters of s
RECURSIVE FirstWord(_)
FirstWord(s) ==
    IF s = <<>> \/ IsSpace(Head(s)) THEN <<>> ELSE <<Head(s)>> \o FirstWord(Tail(s))

\* str.split()
RECURSIVE Split(_)
Split(s) ==
    LET t == LStrip(s)
    IN  IF t = <<>> THEN <<>>
        ELSE <<FirstWord(t)>> \o Split(SubSeq(t, Len(FirstWord(t)) + 1, Len(t)))

\* needle in hay
Contains(hay, needle) ==
    \E i \in 0..(Len(hay) - Len(needle)) :
        SubSeq(hay, i + 1, i + Len(needle)) = needle

-----------------------------------------------------------------------------
(* OpenAIService                                                           *)

SubmitLimit == 50         \* events[:50]
NeutralScore == 500       \* 0.5
DefaultAiScore == 500     \* ranking.get('relevance_score', 0.5)

\* what a ranking call hands back: the returned list, the caller's list as
\* the call left it, and the heap with the attributes it wrote
Ranked(out, events, h) == [out |-> out, events |-> events, heap |-> h]

_neutral_ranking(events, max_events, h) ==
    Ranked(Take(events, max_events), events,
           [o \in DOMAIN h |->
               IF o \in Range(events)
               THEN [h[o] EXCEPT !.relevance_score = NeutralScore,
                                 !.recommendation_reason = "Found near your location"]
               ELSE h[o]])

\* f"{name} {description} {category}".lower()
EventText(event) ==
    Lower(event.name \o <<" ">> \o event.description \o <<" ">> \o event.category)

\* min(matches / len(activity_words), 1.0), in thousandths
TextMatchScore(event, activity_words) ==
    LET matches == Cardinality({ i \in DOMAIN activity_words :
                                   Contains(EventText(event), activity_words[i]) })
    IN  Min((matches * 1000) \div Len(activity_words), 1000)

_fallback_ranking(events, user_activity, max_events, h) ==
    IF Strip(user_activity) = <<>>
    THEN _neutral_ranking(events, max_events, h)
    ELSE LET activity_words == Split(Lower(user_activity))
             h2 == [o \in DOMAIN h |->
                       IF o \in Range(events)
                       THEN [h[o] EXCEPT
                               !.relevance_score = TextMatchScore(h[o], activity_words),
                               !.recommendation_reason = "Text matching score"]
                       ELSE h[o]]
             sorted == StableSortDesc(events,
                           [o \in Range(events) |-> <<h2[o].relevance_score, 0>>])
         IN  Ranked(Take(sorted, max_events), sorted, h2)

\* ranking.get('event_id', 0)
EventIdOf(ranking) == IF ranking.has_event_id THEN ranking.event_id ELSE 0

\* the loop of _parse_ranking_response over the parsed array: it runs up to
\* the first item that is not an object (where .get raises), and every item
\* before that whose index is in range scores its event and appends it; ok
\* is FALSE when the loop raised
ParseLoop(rankings, original_events, h) ==
    LET bad == { i \in DOMAIN rankings : ~rankings[i].is_dict }
        stop == IF bad = {} THEN Len(rankings) + 1
                ELSE CHOOSE i \in bad : \A j \in bad : i <= j
        InRange(i) == /\ i < stop
                      /\ 0 <= EventIdOf(rankings[i])
                      /\ EventIdOf(rankings[i]) < Len(original_events)
        taken_items == SelectSeq([i \in 1..Len(rankings) |-> i], InRange)
        EventAt(i) == original_events[EventIdOf(rankings[i]) + 1]
        ItemsOf(o) == { i \in Range(taken_items) : EventAt(i) = o }
        LastItemOf(o) == rankings[CHOOSE i \in ItemsOf(o) : \A j \in ItemsOf(o) : j <= i]
    IN  [ok |-> bad = {},
         ranked |-> [k \in 1..Len(taken_items) |-> EventAt(taken_items[k])],
         heap |-> [o \in DOMAIN h |->
                     IF ItemsOf(o) = {} THEN h[o]
                     ELSE [h[o] EXCEPT
                             !.relevance_score =
                                 IF LastItemOf(o).has_score
                                 THEN LastItemOf(o).relevance_score
                                 ELSE DefaultAiScore,
                             !.recommendation_reason = "AI recommendation"]]]

\* a mutation of ParseFailure: the except branch returns what the loop had ranked
ParseFailureKeepsRanked(original_events, ranked, h) ==
    Ranked(ranked, original_events, h)

\* the except branch: _fallback_ranking(original_events, "", len(original_events))
ParseFailure(original_events, ranked, h) ==
    _fallback_ranking(original_events, <<>>, Len(original_events), h)

\* response.kind: "no_open_bracket" (find('[') is -1), "no_close_bracket"
\* (the slice is empty), "invalid_json" (json.loads raises), "array"
_parse_ranking_response(response, original_events, h) ==
    IF response.kind # "array"
    THEN ParseFailure(original_events, <<>>, h)
    ELSE LET parsed == ParseLoop(response.items, original_events, h)
         IN  IF ~parsed.ok
             THEN ParseFailure(original_events, parsed.ranked, parsed.heap)
             ELSE Ranked(StableSortDesc(parsed.ranked,
                            [o \in Range(parsed.ranked) |->
                                <<parsed.heap[o].relevance_score, 0>>]),
                         original_events, parsed.heap)

\* api.kind is "raises" when the completion call raises, else api is the
\* response text
rank_events_by_activity(events, user_activity, max_events, available, api, h) ==
    IF ~available THEN _fallback_ranking(events, user_activity, max_events, h)
    ELSE IF events = <<>> THEN Ranked(<<>>, events, h)
    ELSE IF Strip(user_activity) = <<>> THEN _neutral_ranking(events, max_events, h)
    ELSE IF api.kind = "raises"
         THEN _fallback_ranking(events, user_activity, max_events, h)
         ELSE LET rankings == _parse_ranking_response(api, events, h)
              IN  Ranked(Take(rankings.out, max_events), rankings.events,
                         rankings.heap)

-----------------------------------------------------------------------------
(* UnifiedEventsService: ranking and final filtering                       *)

AiMaxEvents == 30         \* rank_events_by_activity(..., max_events=30)
FinalEventLimit == 30     \* self.final_event_limit
StrictScoreFloor == 200   \* overall_score > 0.2
StrictPromptFloor == 300  \* prompt_score > 0.3
RelaxedScoreFloor == 100  \* relevance_score > 0.1
MinimumResults == 5       \* len(filtered_events) < 5

\* the methods class UnifiedEventsService defines; calling any other name on
\* self raises AttributeError
DefinedMethods ==
    { "search_events", "_search_source_safely", "_deduplicate_events",
      "_create_event_key", "_normalize_event_name", "_should_replace_event",
      "_calculate_completeness_score", "_apply_ai_evaluation",
      "_rule_based_evaluation", "_calculate_activity_match",
      "_calculate_interest_match", "_calculate_time_relevance",
      "_generate_recommendation_reason", "_final_ranking_and_filtering",
      "_remove_cost_information", "_advanced_ai_evaluation" }

\* the first call the loop body of _rule_based_evaluation makes that the
\* class cannot resolve: _calculate_prompt_relevance when an activity was
\* given, _calculate_location_proximity in every case
RuleBasedLoopRaises(user_activity) ==
    \/ (user_activity # <<>> /\ "_calculate_prompt_relevance" \notin DefinedMethods)
    \/ "_calculate_location_proximity" \notin DefinedMethods

\* a result of _apply_ai_evaluation: raised, or ranked_events with the heap
Evaluation(raised, ranked, events, h) ==
    [raised |-> raised, ranked |-> ranked, events |-> events, heap |-> h]

\* the loop raises on the first event, before any attribute is assigned, so
\* only an empty list gets through: sorted([]) is []
_rule_based_evaluation(events, user_activity, h) ==
    IF events # <<>> /\ RuleBasedLoopRaises(user_activity)
    THEN Evaluation(TRUE, <<>>, events, h)
    ELSE Evaluation(FALSE, <<>>, events, h)

\* ai: "none" (self.ai_service is None), "unavailable" (is_available() is
\* False), "raises" (the service raises out of the call), "available"
_apply_ai_evaluation(events, user_activity, ai, api, h) ==
    IF ai = "available"
    THEN LET r == rank_events_by_activity(events, user_activity, AiMaxEvents,
                                          TRUE, api, h)
         IN  Evaluation(FALSE, r.out, r.events, r.heap)
    ELSE _rule_based_evaluation(events, user_activity, h)

\* the sort key of the final ranking: prompt relevance first, then the score
FinalSortKey(event) ==
    << FactorGet(event.personalization_factors, "prompt_relevance", 0),
       event.relevance_score >>

\* a mutation of FinalOrder: reverse=True is left out
FinalOrderAscending(filtered_events, h) ==
    StableSortDesc(filtered_events,
        [o \in Range(filtered_events) |-> <<0, 0 - h[o].relevance_score>>])

\* sorted(filtered_events, key=(prompt_relevance, relevance_score), reverse=True)
FinalOrder(filtered_events, h) ==
    StableSortDesc(filtered_events,
        [o \in Range(filtered_events) |-> FinalSortKey(h[o])])

PassesStrict(event) ==
    \/ event.relevance_score > StrictScoreFloor
    \/ FactorGet(event.personalization_factors, "prompt_relevance", 0)
           > StrictPromptFloor

PassesRelaxed(event) == event.relevance_score > RelaxedScoreFloor

\* the candidate set after the two filters
FilteredEvents(events, h) ==
    LET strict == SelectSeq(events, LAMBDA o : PassesStrict(h[o]))
    IN  IF Len(strict) < MinimumResults /\ events # <<>>
        THEN SelectSeq(events, LAMBDA o : PassesRelaxed(h[o]))
        ELSE strict

_final_ranking_and_filtering(events, h) ==
    Take(FinalOrder(FilteredEvents(events, h), h), FinalEventLimit)

\* price_min and price_max are set to None on every returned event
_remove_cost_information(events, h) ==
    [o \in DOMAIN h |->
        IF o \in Range(events)
        THEN [h[o] EXCEPT !.price_min = "none", !.price_max = "none"]
        ELSE h[o]]

-----------------------------------------------------------------------------
(* TicketmasterService: model-assisted ranking of its own results          *)

TmDefaultScore == 300     \* setattr(event, 'relevance_score', 0.3)
TmMinRelevance == 150     \* MIN_RELEVANCE_SCORE
FreeEventBoost == 50      \* traditional_boost += 0.05
TmPromptLimit == 15       \* events[:15]

\* the rankings dict of _parse_ai_rankings: the items that are objects with
\* an index and a score, a later item for an index replacing an earlier one;
\* empty when the regex finds no array or json.loads raises.  An item's
\* relevance_score is its score / 10.0, in thousandths
_parse_ai_rankings(response) ==
    IF response.kind # "array" THEN {}
    ELSE { r \in { [index |-> response.items[i].event_id, at |-> i,
                    score |-> response.items[i].relevance_score] :
                      i \in { j \in DOMAIN response.items :
                                /\ response.items[j].is_dict
                                /\ response.items[j].has_event_id
                                /\ response.items[j].has_score } } :
             \A i \in DOMAIN response.items :
                 (/\ response.items[i].is_dict
                  /\ response.items[i].has_event_id
                  /\ response.items[i].has_score
                  /\ response.items[i].event_id = r.index) => i <= r.at }

\* every event of the list gets the score of its index, or the default
_apply_ai_rankings(events, ai_rankings, h) ==
    [o \in DOMAIN h |->
        IF \E i \in DOMAIN events : events[i] = o
        THEN LET i == CHOOSE k \in DOMAIN events : events[k] = o
                 named == { r \in ai_rankings : r.index = i - 1 }
             IN  IF named = {}
                 THEN [h[o] EXCEPT !.relevance_score = TmDefaultScore]
                 ELSE [h[o] EXCEPT
                         !.relevance_score = (CHOOSE r \in named : TRUE).score,
                         !.recommendation_reason = "AI reason"]
        ELSE h[o]]

\* _ai_rank_events: key is FALSE when no OPENAI_API_KEY is configured; a
\* raising completion call leaves the events as they are
_ai_rank_events(events, key, api, h) ==
    IF ~key \/ events = <<>> \/ api.kind = "raises" THEN h
    ELSE _apply_ai_rankings(events, _parse_ai_rankings(api), h)

\* _apply_traditional_scoring for a profile without categories or keywords
\* and dates that are not ISO dates: only the free-event boost applies
_apply_traditional_scoring(events, h) ==
    [o \in DOMAIN h |->
        IF o \in Range(events)
        THEN [h[o] EXCEPT !.relevance_score =
                 Min(h[o].relevance_score +
                        (IF h[o].price_min = "none" THEN FreeEventBoost ELSE 0),
                     1000)]
        ELSE h[o]]

_filter_and_rank_events(events, key, api, h) ==
    IF events = <<>> THEN Ranked(events, events, h)
    ELSE LET h2 == _apply_traditional_scoring(events,
                       _ai_rank_events(events, key, api, h))
         IN  Ranked(SelectSeq(events,
                        LAMBDA o : h2[o].relevance_score >= TmMinRelevance),
                    events, h2)

-----------------------------------------------------------------------------
(* What the ranking backend may answer                                     *)

AiScores == {150, 900}

Item(event_id, score) ==
    [is_dict |-> TRUE, has_event_id |-> TRUE, event_id |-> event_id,
     has_score |-> TRUE, relevance_score |-> score]

\* one item for every index of covered, in index order
ItemsFor(n, covered, score) ==
    LET indexes == SelectSeq([i \in 1..n |-> i - 1], LAMBDA i : i \in covered)
    IN  [k \in 1..Len(indexes) |-> Item(indexes[k], score[indexes[k]])]

\* an item the prompt did not ask for, after the others
ExtraItems(n) ==
    { <<>>,
      << [Item(0, 900) EXCEPT !.is_dict = FALSE] >>,    \* a bare number or string
      << Item(n, 900) >>,                               \* an index nobody submitted
      << Item(0 - 1, 900) >>,                           \* a negative index
      << [Item(0, 900) EXCEPT !.has_event_id = FALSE] >>,
      << [Item(0, 900) EXCEPT !.has_score = FALSE] >>,
      << Item(0, 1500) >> }                             \* a score of 1.5

Unparseable ==
    { [kind |-> k, items |-> <<>>] :
        k \in {"no_open_bracket", "no_close_bracket", "invalid_json"} }

ApiRaises == [kind |-> "raises", items |-> <<>>]
ApiUnused == [kind |-> "unused", items |-> <<>>]

\* the answers to a prompt that listed n events
Responses(n) ==
    Unparseable \cup
    { [kind |-> "array", items |-> ItemsFor(n, covered, score) \o extra] :
        covered \in SUBSET (0..(n - 1)),
        score \in [0..(n - 1) -> AiScores],
        extra \in ExtraItems(n) }

\* the indexes a parsed array gives a ranking for (a missing event_id reads as 0)
Covered(api) ==
    { (IF api.items[i].has_event_id THEN api.items[i].event_id ELSE 0) :
        i \in { j \in DOMAIN api.items : api.items[j].is_dict } }

\* the response cannot be read as the expected array
IsMalformed(api) ==
    \/ api.kind \in {"no_open_bracket", "no_close_bracket", "invalid_json"}
    \/ api.kind = "array" /\ \E i \in DOMAIN api.items : ~api.items[i].is_dict

-----------------------------------------------------------------------------
(* Ranking bench: OpenAIService.rank_events_by_activity on a candidate     *)
(* list, followed by _final_ranking_and_filtering                          *)

GigActivity == <<"g","i","g">>

\* candidates as the resolver hands them over: no score, no reason yet
Candidate(n, name) ==
    NewEvent([tag |-> "", n |-> n], name, Hall, July1, "19:00", LiveText, "img", "", "link")

\* list lengths around the two cut-offs
LongLists == { AiMaxEvents + 1, SubmitLimit + 1 }

\* answers to a long prompt: unreadable ones, and complete rankings that give
\* every event the same score but one
LongResponses(n) ==
    Unparseable \cup
    { [kind |-> "array",
       items |-> ItemsFor(n, 0..(n - 1), [i \in 0..(n - 1) |-> IF i = j THEN s2 ELSE s1])] :
        j \in {0, n - 1}, s1 \in AiScores, s2 \in AiScores }

InitRank ==
    /\ PipelineIdle
    /\ dd = BenchIdle
    /\ nm = BenchIdle
    /\ \E n \in (0..MaxCandidates) \cup LongLists, activity \in {<<>>, GigActivity} :
          /\ IF n \in LongLists
             THEN heap = [i \in 1..n |-> Candidate(i, Jam)]
             ELSE \E names \in [1..n -> {Gig, Jam}] :
                     heap = [i \in 1..n |-> Candidate(i, names[i])]
          /\ rk = [pc |-> "candidates", events |-> [i \in 1..n |-> i],
                   activity |-> activity, available |-> TRUE, api |-> ApiUnused,
                   out |-> <<>>, final |-> <<>>]

\* rank_events_by_activity(events, user_activity, max_events=30)
RankEvents ==
    /\ rk.pc = "candidates"
    /\ \E available \in BOOLEAN :
       \E api \in IF available /\ rk.events # <<>> /\ Strip(rk.activity) # <<>>
                  THEN {ApiRaises} \cup
                       (IF Len(rk.events) \in LongLists
                        THEN LongResponses(Len(Take(rk.events, SubmitLimit)))
                        ELSE Responses(Len(Take(rk.events, SubmitLimit))))
                  ELSE {ApiUnused} :
          LET r == rank_events_by_activity(rk.events, rk.activity, AiMaxEvents,
                                           available, api, heap)
          IN  /\ heap' = r.heap
              /\ rk' = [rk EXCEPT !.pc = "ranked", !.available = available,
                                  !.api = api, !.out = r.out]
    /\ UNCHANGED <<PipelineVars, dd, nm>>

\* _final_ranking_and_filtering on the ranker's output
FilterRanked ==
    /\ rk.pc = "ranked"
    /\ rk' = [rk EXCEPT !.pc = "final",
                        !.final = _final_ranking_and_filtering(rk.out, heap)]
    /\ UNCHANGED <<PipelineVars, heap, dd, nm>>

\* TicketmasterService._filter_and_rank_events on the same candidates
TicketmasterRank ==
    /\ rk.pc = "candidates"
    /\ \E key \in BOOLEAN :
       \E api \in IF key /\ rk.events # <<>>
                  THEN {ApiRaises} \cup
                       (IF Len(rk.events) \in LongLists
                        THEN LongResponses(Len(Take(rk.events, TmPromptLimit)))
                        ELSE Responses(Len(Take(rk.events, TmPromptLimit))))
                  ELSE {ApiUnused} :
          LET r == _filter_and_rank_events(rk.events, key, api, heap)
          IN  /\ heap' = r.heap
              /\ rk' = [rk EXCEPT !.pc = "tm_ranked", !.available = key,
                                  !.api = api, !.out = r.out]
    /\ UNCHANGED <<PipelineVars, dd, nm>>

NextRank == RankEvents \/ FilterRanked \/ TicketmasterRank

SpecRank == InitRank /\ [][NextRank]_vars

\* the ranker wrote a score to the object (it writes a reason with every score)
Scored(o) == heap[o].recommendation_reason # ""

\* the submitted indexes: the prompt lists the first limit events
Submitted(limit) == 0..(Len(Take(rk.events, limit)) - 1)

C5_PartialFallsBack ==
    /\ (/\ rk.pc \in {"ranked", "final"}
        /\ rk.api.kind = "array"
        /\ ~IsMalformed(rk.api)
        /\ Covered(rk.api) # Submitted(SubmitLimit)) =>
          /\ Range(rk.out) = Range(Take(rk.events, AiMaxEvents))
          /\ \A o \in Range(rk.events) :
                heap[o].recommendation_reason # "AI recommendation"
    /\ (/\ rk.pc = "tm_ranked"
        /\ rk.api.kind = "array"
        /\ ~IsMalformed(rk.api)
        /\ Covered(rk.api) # Submitted(TmPromptLimit)) =>
          \A o \in Range(rk.events) : heap[o].recommendation_reason # "AI reason"

\* C10: truncation comes after scoring and sorting: an event that is cut was
\* scored, and has no higher score than any event that is returned.
C10_CutAfterScoring ==
    (/\ rk.pc \in {"ranked", "final"}
     /\ rk.api.kind = "array"
     /\ ~IsMalformed(rk.api)
     /\ Covered(rk.api) = Submitted(SubmitLimit)) =>
        \A o \in Range(rk.events) \ Range(rk.out) :
            /\ Scored(o)
            /\ \A r \in Range(rk.out) :
                  heap[o].relevance_score <= heap[r].relevance_score

-----------------------------------------------------------------------------
(* UnifiedEventsService.search_events: fan-out, resolve, rank, filter      *)

Sources == {"ticketmaster", "allevents"}

SourceTimeout == 30       \* future.result(timeout=30)

\* an event as an adapter hands it over when it has scored it itself
Scored_by(event, score, factors) ==
    [event EXCEPT !.relevance_score = score, !.personalization_factors = factors]

\* priceRanges[0] of the upstream record gave the event its prices
Priced(event) == [event EXCEPT !.price_min = "some", !.price_max = "some"]

\* the Event objects the two adapters construct for one search: 1 and 2 are
\* Ticketmaster's, 3 and 4 AllEvents'; 3 is the same gig as 1 and 4 the same
\* jam as 2, under other spellings and with other fields filled in
Catalogue ==
    << Priced(Scored_by(NewEvent([tag |-> "", n |-> 1], TheGig, Hall,
                                 July1, "19:00", LiveText, "img", "", "link"),
                        800, {[key |-> "ai_score", value |-> 800]})),
       Scored_by(NewEvent([tag |-> "", n |-> 2], Jam, Hall, July1,
                          "TBA", <<>>, "", "", ""),
                 300, {}),
       Scored_by(NewEvent([tag |-> "allevents_", n |-> 3], Gig, HallPadded, July1,
                          "TBA", <<>>, "", "", "link"),
                 400, {[key |-> "prompt_match", value |-> 500]}),
       Scored_by(NewEvent([tag |-> "allevents_", n |-> 4], Jam, Hall, July1,
                          "20:00", LiveText, "img", "", "link"),
                 0, {}) >>

\* what one call of service.search_events does
Returns(events) == [kind |-> "returns", events |-> events]
Raises == [kind |-> "raises", events |-> <<>>]
Hangs == [kind |-> "hangs", events |-> <<>>]

Answers(source) ==
    {Raises, Hangs, Returns(<<>>)} \cup
    (IF source = "ticketmaster" THEN {Returns(<<1>>), Returns(<<1, 2>>)}
                                ELSE {Returns(<<3>>), Returns(<<4, 3>>)})

Init ==
    /\ dd = BenchIdle
    /\ nm = BenchIdle
    /\ rk = BenchIdle
    /\ web = BenchIdle
    /\ pc = "start"
    /\ task = <<>>
    /\ taken = {}
    /\ clock = 0
    /\ all_events = <<>>
    /\ deduplicated_events = <<>>
    /\ ranked_events = <<>>
    /\ final_events = <<>>
    /\ heap = Catalogue
    /\ \E services \in SUBSET Sources :
       \E answer \in [services -> UNION { Answers(s) : s \in Sources }] :
       \E ai \in {"none", "unavailable", "raises", "available"} :
       \E user_activity \in {<<>>, GigActivity} :
          /\ \A s \in services : answer[s] \in Answers(s)
          /\ env = [services |-> services, answer |-> answer, ai |-> ai,
                    user_activity |-> user_activity]

\* executor.submit(self._search_source_safely, ...) for every configured service
Submit ==
    /\ pc = "start"
    /\ pc' = "fanout"
    /\ task' = [s \in env.services |-> [status |-> "running", result |-> <<>>]]
    /\ UNCHANGED <<taken, clock, all_events, deduplicated_events, ranked_events,
                   final_events, heap, env, dd, nm, rk, web>>

\* _search_source_safely in its worker thread: the service's events, or []
\* when it returns nothing or raises; a call that hangs never gets here
SearchSource(s) ==
    /\ pc = "fanout"
    /\ s \in DOMAIN task
    /\ task[s].status = "running"
    /\ env.answer[s].kind # "hangs"
    /\ task' = [task EXCEPT ![s] = [status |-> "completed",
                                    result |-> IF env.answer[s].kind = "raises"
                                               THEN <<>>
                                               ELSE env.answer[s].events]]
    /\ UNCHANGED <<pc, taken, clock, all_events, deduplicated_events,
                   ranked_events, final_events, heap, env, dd, nm, rk, web>>

\* time passes while as_completed blocks on a task that is still running
Tick ==
    /\ pc = "fanout"
    /\ \E s \in DOMAIN task : task[s].status = "running"
    /\ clock < MaxClock
    /\ clock' = clock + TickSeconds
    /\ UNCHANGED <<pc, task, taken, all_events, deduplicated_events,
                   ranked_events, final_events, heap, env, dd, nm, rk, web>>

\* a mutation of CollectInto: the list is assigned, not extended
CollectOverwrites(collected, events) == events

\* all_events.extend(events)
CollectInto(collected, events) == collected \o events

\* one round of the as_completed loop: a completed future is yielded and its
\* result, if not empty, is added
Collect(s) ==
    /\ pc = "fanout"
    /\ s \in DOMAIN task
    /\ s \notin taken
    /\ task[s].status = "completed"
    /\ taken' = taken \cup {s}
    /\ all_events' = IF task[s].result # <<>>
                     THEN CollectInto(all_events, task[s].result)
                     ELSE all_events
    /\ UNCHANGED <<pc, task, clock, deduplicated_events, ranked_events,
                   final_events, heap, env, dd, nm, rk, web>>

\* a mutation of AsCompletedExhausted: the loop stops at the first future
FirstCompletedOnly(futures, yielded) == yielded # {}

\* the for loop over as_completed(future_to_source) is over: every future
\* has been yielded
AsCompletedExhausted(futures, yielded) == yielded = DOMAIN futures

\* the as_completed loop has yielded every future: _deduplicate_events(all_events)
Deduplicate ==
    /\ pc = "fanout"
    /\ AsCompletedExhausted(task, taken)
    /\ deduplicated_events' = _deduplicate_events(all_events, heap)
    /\ pc' = "rank"
    /\ UNCHANGED <<task, taken, clock, all_events, ranked_events, final_events,
                   heap, env, dd, nm, rk, web>>

\* _apply_ai_evaluation(deduplicated_events, ...); an exception it lets out
\* leaves search_events
Evaluate ==
    /\ pc = "rank"
    /\ \E api \in IF /\ env.ai = "available"
                     /\ deduplicated_events # <<>>
                     /\ Strip(env.user_activity) # <<>>
                  THEN {ApiRaises} \cup
                       Responses(Len(Take(deduplicated_events, SubmitLimit)))
                  ELSE {ApiUnused} :
          LET r == _apply_ai_evaluation(deduplicated_events, env.user_activity,
                                        env.ai, api, heap)
          IN  IF r.raised
              THEN /\ pc' = "raised"
                   /\ UNCHANGED <<deduplicated_events, ranked_events, heap>>
              ELSE /\ pc' = "final"
                   /\ deduplicated_events' = r.events
                   /\ ranked_events' = r.ranked
                   /\ heap' = r.heap
    /\ UNCHANGED <<task, taken, clock, all_events, final_events, env, dd, nm, rk, web>>

\* _final_ranking_and_filtering, _remove_cost_information, return
Finish ==
    /\ pc = "final"
    /\ final_events' = _final_ranking_and_filtering(ranked_events, heap)
    /\ heap' = _remove_cost_information(final_events', heap)
    /\ pc' = "done"
    /\ UNCHANGED <<task, taken, clock, all_events, deduplicated_events,
                   ranked_events, env, dd, nm, rk, web>>

Next ==
    \/ Submit
    \/ \E s \in Sources : SearchSource(s)
    \/ Tick
    \/ \E s \in Sources : Collect(s)
    \/ Deduplicate
    \/ Evaluate
    \/ Finish

Spec == Init /\ [][Next]_vars

\* the providers of this search whose call returned a list
Returned == { s \in env.services : env.answer[s].kind = "returns" }

\* the fan-out is over
Collected == pc \in {"rank", "final", "done", "raised"}

\* C1: whichever providers raise, the events the fan-out collects are exactly
\* those the other providers returned, each once; when no provider returns
\* an event, search_events returns an empty list and does not raise.
C1_FailuresIsolated ==
    /\ Collected =>
          /\ Range(all_events) = UNION { Range(env.answer[s].events) : s \in Returned }
          /\ \A i, j \in DOMAIN all_events : all_events[i] = all_events[j] => i = j
    /\ (Collected /\ \A s \in Returned : env.answer[s].events = <<>>) =>
          /\ pc # "raised"
          /\ pc = "done" => final_events = <<>>

\* C1 witness: AllEvents raised, Ticketmaster returned two events, and the
\* fan-out is over with both collected.
C1_Witness ==
    /\ pc = "rank"
    /\ env.services = Sources
    /\ env.answer["allevents"].kind = "raises"
    /\ Len(env.answer["ticketmaster"].events) = 2
    /\ Len(all_events) = 2

\* C2: the fan-out waits a bounded time: search_events is never still in the
\* fan-out after a provider task has been out for longer than its timeout.
C2_BoundedWait ==
    pc = "fanout" => clock <= SourceTimeout

\* C3: with the ranking backend absent, unavailable or raising, a non-empty
\* deduplicated set comes back scored by the rule-based path, and
\* search_events does not raise.
C3_RuleBasedPathReturns ==
    (Collected /\ pc # "rank" /\ env.ai # "available" /\ deduplicated_events # <<>>) =>
        /\ pc # "raised"
        /\ Range(ranked_events) = Range(deduplicated_events)
        /\ \A o \in Range(ranked_events) : heap[o].recommendation_reason # ""

StageAfter ==
    [start |-> {"fanout"}, fanout |-> {"rank"}, rank |-> {"final", "raised"},
     final |-> {"done"}, done |-> {}, raised |-> {}]

C21_NoInPlaceChange ==
    [][/\ pc \in {"final", "done"} => heap' = heap
       /\ pc # "fanout" => all_events' = all_events
       /\ pc \in {"rank", "final", "done"} =>
              deduplicated_events' = deduplicated_events
       /\ pc \in {"final", "done"} => ranked_events' = ranked_events]_vars

\* C21 (what the stages after the ranker do keep): the final stage leaves
\* the lists it was handed and every field but the two prices as they were.
C21_OnlyPricesWritten ==
    [][/\ pc \in {"final", "done"} => all_events' = all_events
       /\ pc \in {"final", "done"} =>
              deduplicated_events' = deduplicated_events
       /\ pc \in {"final", "done"} => ranked_events' = ranked_events
       /\ pc \in {"final", "done"} =>
              /\ DOMAIN heap' = DOMAIN heap
              /\ \A o \in DOMAIN heap :
                    [heap'[o] EXCEPT !.price_min = heap[o].price_min,
                                     !.price_max = heap[o].price_max] = heap[o]
      ]_vars

-----------------------------------------------------------------------------
(* Filter bench: the relevance filters on lists of scored events           *)

MaxFilterLen == 6

\* scores on, just under and well off the two floors of the final filter and
\* the floor of Ticketmaster's
BoundaryScores == {100, 150, 200, 900}

\* an event that reaches a filter already scored, with a price, so that the
\* free-event boost does not move its score
PricedCandidate(n, score) ==
    [Candidate(n, Jam) EXCEPT !.relevance_score = score, !.price_min = "some",
                              !.recommendation_reason = "AI recommendation"]

InitFilter ==
    /\ PipelineIdle
    /\ dd = BenchIdle
    /\ nm = BenchIdle
    /\ \E n \in 0..MaxFilterLen :
       \E scores \in [1..n -> BoundaryScores] :
          /\ heap = [i \in 1..n |-> PricedCandidate(i, scores[i])]
          /\ rk = [pc |-> "ranked", events |-> [i \in 1..n |-> i],
                   activity |-> <<>>, available |-> FALSE, api |-> ApiUnused,
                   out |-> [i \in 1..n |-> i], final |-> <<>>]

\* TicketmasterService._filter_and_rank_events without an API key: the
\* traditional scoring, then the minimum-relevance filter
TicketmasterFilter ==
    /\ rk.pc = "ranked"
    /\ LET r == _filter_and_rank_events(rk.events, FALSE, ApiUnused, heap)
       IN  /\ heap' = r.heap
           /\ rk' = [rk EXCEPT !.pc = "tm_filtered", !.final = r.out]
    /\ UNCHANGED <<PipelineVars, dd, nm>>

NextFilter == FilterRanked \/ TicketmasterFilter

SpecFilter == InitFilter /\ [][NextFilter]_vars

\* the events of the bench at or above a score
AtLeast(score) == SelectSeq(rk.events, LAMBDA o : heap[o].relevance_score >= score)

\* C11: an event scored exactly at the minimum relevance threshold is kept
\* and one below it is dropped, unless that leaves fewer than the minimum
\* number of results, in which case the relaxed filter decides.
C11_ThresholdInclusive ==
    /\ rk.pc = "final" =>
          Range(rk.final) =
              IF Len(AtLeast(StrictScoreFloor)) >= MinimumResults
              THEN Range(AtLeast(StrictScoreFloor))
              ELSE { o \in Range(rk.events) : PassesRelaxed(heap[o]) }
    /\ rk.pc = "tm_filtered" => rk.final = AtLeast(TmMinRelevance)

\* C11 (Ticketmaster's filter alone): an event scored exactly at
\* MIN_RELEVANCE_SCORE is kept, every event below it is dropped.
C11_TicketmasterInclusive ==
    rk.pc = "tm_filtered" => rk.final = AtLeast(TmMinRelevance)

-----------------------------------------------------------------------------
(* Properties of the list search_events returns                            *)

\* C12: every event search_events returns has a relevance_score within
\* [0, 1], whichever path scored it.
C12_ScoreInRange ==
    pc = "done" =>
        \A o \in Range(final_events) :
            0 <= heap[o].relevance_score /\ heap[o].relevance_score <= 1000

-----------------------------------------------------------------------------
(* Phrase bench: the text scorers on two events that differ in description *)

\* AllEventsService._calculate_prompt_match, in thousandths: 0.5 for the
\* phrase, and up to 0.4 for the words longer than two characters, a word
\* counting 2 in the name, else 1.5 in the category, else 1 in the description
_calculate_prompt_match(event, user_activity) ==
    LET event_name == Lower(event.name)
        event_description == Lower(event.description)
        event_category == Lower(event.category)
        event_text == event_name \o <<" ">> \o event_description \o <<" ">> \o event_category
        activity_words == SelectSeq(Split(Lower(user_activity)), LAMBDA w : Len(w) > 2)
        HalfPoints(w) == IF Contains(event_name, w) THEN 4
                         ELSE IF Contains(event_category, w) THEN 3
                         ELSE IF Contains(event_description, w) THEN 2 ELSE 0
        Sum[i \in 0..Len(activity_words)] ==
            IF i = 0 THEN 0 ELSE Sum[i - 1] + HalfPoints(activity_words[i])
        phrase == IF Contains(event_text, Lower(user_activity)) THEN 500 ELSE 0
        words == IF activity_words = <<>> THEN 0
                 ELSE Min((Sum[Len(activity_words)] * 1000)
                              \div (4 * Len(activity_words)), 400)
    IN  Min(phrase + words, 1000)

\* AllEventsService._calculate_simple_relevance without a user profile
_calculate_simple_relevance(event, user_activity) ==
    Min(100
        + (IF user_activity # <<>>
           THEN (_calculate_prompt_match(event, user_activity) * 6) \div 10 ELSE 0)
        + (IF event.image_url # "" THEN 80 ELSE 0)
        + (IF Len(event.description) > 50 THEN 70 ELSE 0),
        1000)

\* activity phrases: one word, two words, one in capitals
Activities ==
    { GigActivity, <<"l","i","v","e"," ","g","i","g">>, <<"G","I","G">> }

\* descriptions without the phrase: none, one word of it, its words in
\* another order, and texts just under and just over 50 characters
OtherDescriptions ==
    { <<>>, LiveText, <<"g","i"," ","l","i","v","e">>,
      [i \in 1..47 |-> "x"], [i \in 1..51 |-> "x"] }

\* the description with the phrase put before it or after it
WithPhrase(description, phrase) ==
    { phrase \o <<" ">> \o description, description \o <<" ">> \o phrase }

\* event 1 is event 2 with the activity phrase added to its description
InitPhrase ==
    /\ PipelineIdle
    /\ dd = BenchIdle
    /\ nm = BenchIdle
    /\ \E activity \in Activities, name \in {Jam, Gig, LiveText},
          other \in OtherDescriptions :
       \E description \in WithPhrase(other, activity) :
          /\ heap = << [Candidate(1, name) EXCEPT !.description = description],
                       [Candidate(1, name) EXCEPT !.description = other] >>
          /\ rk = [pc |-> "candidates", events |-> <<1, 2>>, activity |-> activity,
                   available |-> FALSE, api |-> ApiUnused, out |-> <<>>,
                   final |-> <<>>]

\* OpenAIService._fallback_ranking on the pair
FallbackScore ==
    /\ rk.pc = "candidates"
    /\ LET r == _fallback_ranking(rk.events, rk.activity, Len(rk.events), heap)
       IN  /\ heap' = r.heap
           /\ rk' = [rk EXCEPT !.pc = "fallback", !.out = r.out]
    /\ UNCHANGED <<PipelineVars, dd, nm>>

\* the scoring loop of AllEventsService._apply_ai_filtering on the pair
AllEventsScore ==
    /\ rk.pc = "candidates"
    /\ heap' = [o \in DOMAIN heap |->
                  [heap[o] EXCEPT !.relevance_score =
                      _calculate_simple_relevance(heap[o], rk.activity)]]
    /\ rk' = [rk EXCEPT !.pc = "allevents", !.out = rk.events]
    /\ UNCHANGED <<PipelineVars, dd, nm>>

\* UnifiedEventsService._rule_based_evaluation on the pair
RuleBasedScore ==
    /\ rk.pc = "candidates"
    /\ LET r == _rule_based_evaluation(rk.events, rk.activity, heap)
       IN  /\ heap' = r.heap
           /\ rk' = [rk EXCEPT !.pc = IF r.raised THEN "raised" ELSE "rule_based",
                               !.out = r.ranked]
    /\ UNCHANGED <<PipelineVars, dd, nm>>

NextPhrase == FallbackScore \/ AllEventsScore \/ RuleBasedScore

SpecPhrase == InitPhrase /\ [][NextPhrase]_vars

\* C13: of two events that differ only in description, the one whose
\* description holds the activity phrase is scored, by each rule-based
\* scorer, at least as high as the other.
C13_PhraseScoresHigher ==
    rk.pc # "candidates" =>
        /\ rk.pc # "raised"
        /\ heap[1].relevance_score >= heap[2].relevance_score

\* C13 (the two text scorers that run): the fallback ranker and AllEvents'
\* scorer give the event with the phrase at least the other's score.
C13_TextScorersPreferPhrase ==
    rk.pc \in {"fallback", "allevents"} =>
        heap[1].relevance_score >= heap[2].relevance_score

-----------------------------------------------------------------------------
(* More properties of the list search_events returns                       *)

\* C14: the returned list holds each event at most once, and is no longer
\* than the number of distinct identity keys among the raw provider events
\* nor than the final event limit.
C14_EachEventOnce ==
    pc = "done" =>
        /\ \A i, j \in DOMAIN final_events :
              final_events[i] = final_events[j] => i = j
        /\ Len(final_events) <= Cardinality(Keys(all_events, heap))
        /\ Len(final_events) <= FinalEventLimit

-----------------------------------------------------------------------------
(* utils.helpers.validate_coordinates                                      *)

\* Python values a coordinate can arrive as.  num tells what the value
\* denotes: a finite number of v degrees, an infinity, NaN, an integer too
\* large for a float ("huge"), or, for a str, no number at all
CoordinateValues ==
    { [type |-> "NoneType", num |-> "none", v |-> 0],
      [type |-> "list", num |-> "none", v |-> 0] }
    \cup { [type |-> ty, num |-> "finite", v |-> d] :
             ty \in {"int", "float", "str"},
             d \in {-181, -180, -91, -90, 0, 90, 91, 180, 181} }
    \cup { [type |-> "int", num |-> n, v |-> 0] : n \in {"huge", "-huge"} }
    \cup { [type |-> ty, num |-> n, v |-> 0] :
             ty \in {"float", "str"}, n \in {"inf", "-inf", "nan"} }
    \cup { [type |-> "str", num |-> n, v |-> 0] : n \in {"empty", "text"} }

\* float(x): the float, or the exception it raises.  An integer beyond the
\* float range raises OverflowError; a decimal string beyond it reads as inf
ToFloat(x) ==
    IF x.type \in {"NoneType", "list"} THEN [raises |-> "TypeError", num |-> "none", v |-> 0]
    ELSE IF x.type = "str" /\ x.num \in {"empty", "text"}
         THEN [raises |-> "ValueError", num |-> "none", v |-> 0]
    ELSE IF x.type = "int" /\ x.num \in {"huge", "-huge"}
         THEN [raises |-> "OverflowError", num |-> "none", v |-> 0]
    ELSE [raises |-> "", num |-> x.num, v |-> x.v]

\* -limit <= f <= limit on floats: false for NaN and beyond the limit
WithinDegrees(f, limit) == f.num = "finite" /\ 0 - limit <= f.v /\ f.v <= limit

\* the value returned, or the exception that leaves the function
validate_coordinates(latitude, longitude) ==
    IF latitude.type = "NoneType" \/ longitude.type = "NoneType" THEN "False"
    ELSE LET lat == ToFloat(latitude)
             lon == ToFloat(longitude)
             raised == IF lat.raises # "" THEN lat.raises ELSE lon.raises
         IN  IF raised \in {"ValueError", "TypeError"} THEN "False"
             ELSE IF raised # "" THEN raised
             ELSE IF WithinDegrees(lat, 90) /\ WithinDegrees(lon, 180) THEN "True"
             ELSE "False"

\* web is the call: its arguments and, once made, its outcome
InitCoordinates ==
    /\ pc = "idle" /\ task = <<>> /\ taken = {} /\ clock = 0
    /\ all_events = <<>> /\ deduplicated_events = <<>>
    /\ ranked_events = <<>> /\ final_events = <<>>
    /\ env = <<>> /\ heap = <<>>
    /\ dd = BenchIdle /\ nm = BenchIdle /\ rk = BenchIdle
    /\ \E latitude \in CoordinateValues, longitude \in CoordinateValues :
          web = [pc |-> "call", latitude |-> latitude, longitude |-> longitude,
                 result |-> ""]

Validate ==
    /\ web.pc = "call"
    /\ web' = [web EXCEPT !.pc = "returned",
                          !.result = validate_coordinates(web.latitude, web.longitude)]
    /\ UNCHANGED <<pc, task, taken, clock, all_events, deduplicated_events,
                   ranked_events, final_events, heap, env, dd, nm, rk>>

NextCoordinates == Validate

SpecCoordinates == InitCoordinates /\ [][NextCoordinates]_vars

\* the value denotes a number of degrees within the limit
DenotesWithin(x, limit) ==
    x.type # "list" /\ x.num = "finite" /\ 0 - limit <= x.v /\ x.v <= limit

\* C15: validate_coordinates returns True exactly when both values are
\* present, convertible to numbers and within -90..90 and -180..180, returns
\* False otherwise, and never raises.
C15_ValidExactly ==
    web.pc = "returned" =>
        web.result = IF /\ DenotesWithin(web.latitude, 90)
                        /\ DenotesWithin(web.longitude, 180)
                     THEN "True" ELSE "False"

\* C15 (the values float() can convert): for every pair without an integer
\* beyond the float range the result is the expected boolean.
C15_ValidExactlyWithinFloatRange ==
    (/\ web.pc = "returned"
     /\ ToFloat(web.latitude).raises # "OverflowError"
     /\ ToFloat(web.longitude).raises # "OverflowError") =>
        web.result = IF /\ DenotesWithin(web.latitude, 90)
                        /\ DenotesWithin(web.longitude, 180)
                     THEN "True" ELSE "False"

-----------------------------------------------------------------------------
(* routes.get_map_events over the module-level MappingService              *)

MaxRouteEvents == 2
MaxMarkers == 50          \* MAP_CONFIG MAX_MARKERS

\* two requests in flight; "earlier" is a request answered before them
Requests == {"a", "b"}

\* latitudes the requests carry (the longitude is 0.0): missing, valid as a
\* number and as a string, out of range, beyond the float range, not a number
RouteLatitudes ==
    { x \in CoordinateValues :
        /\ x.type \in {"NoneType", "int", "str"}
        /\ x.v \in {0, 91}
        /\ x.num \in {"none", "finite", "huge", "text"} }

ZeroLongitude == [type |-> "float", num |-> "finite", v |-> 0]

\* the markers add_unified_events makes of a request's search result
OwnMarkers(r, events) == [i \in 1..Len(events) |-> [req |-> r, n |-> events[i]]]

InitRoute ==
    /\ pc = "idle" /\ task = <<>> /\ taken = {} /\ clock = 0
    /\ all_events = <<>> /\ deduplicated_events = <<>>
    /\ ranked_events = <<>> /\ final_events = <<>>
    /\ env = <<>> /\ heap = <<>>
    /\ dd = BenchIdle /\ nm = BenchIdle /\ rk = BenchIdle
    /\ \E latitude \in [Requests -> RouteLatitudes] :
          web = [pc |-> "serving",
                 markers |-> OwnMarkers("earlier", <<1>>),
                 req |-> [r \in Requests |->
                            [pc |-> "received", latitude |-> latitude[r],
                             status |-> 0, queried |-> FALSE, events |-> <<>>,
                             next |-> 1, markers |-> <<>>, total_events |-> 0]]]

\* the request's own step: web with request r changed to s
WithRequest(r, s) == [web EXCEPT !.req[r] = s]

RouteUnchanged ==
    UNCHANGED <<pc, task, taken, clock, all_events, deduplicated_events,
                ranked_events, final_events, heap, env, dd, nm, rk>>

\* from get_json to the coordinate check: float() of each coordinate that is
\* not None, 400 on ValueError or TypeError, any other exception to the
\* handler at the end (500); then validate_coordinates, 400 when it is False
CheckCoordinates(r) ==
    /\ web.req[r].pc = "received"
    /\ LET latitude == web.req[r].latitude
           lat == ToFloat(latitude)
           converted == IF latitude.type = "NoneType" THEN latitude
                        ELSE [type |-> "float", num |-> lat.num, v |-> lat.v]
           status ==
               IF latitude.type # "NoneType" /\ lat.raises \in {"ValueError", "TypeError"}
               THEN 400
               ELSE IF latitude.type # "NoneType" /\ lat.raises # "" THEN 500
               ELSE IF validate_coordinates(converted, ZeroLongitude) = "True"
                    THEN 0 ELSE 400
       IN  web' = WithRequest(r, [web.req[r] EXCEPT
                      !.pc = IF status = 0 THEN "valid" ELSE "responded",
                      !.status = status])
    /\ RouteUnchanged

\* mapping_service.clear_markers()
ClearMarkers(r) ==
    /\ web.req[r].pc = "valid"
    /\ web' = [WithRequest(r, [web.req[r] EXCEPT !.pc = "cleared"])
                  EXCEPT !.markers = <<>>]
    /\ RouteUnchanged

\* unified_events_service.search_events(...): a list of events, or an
\* exception, which the route logs and drops
SearchEvents(r) ==
    /\ web.req[r].pc = "cleared"
    /\ \E n \in 0..MaxRouteEvents, raised \in BOOLEAN :
          /\ raised => n = 0
          /\ web' = WithRequest(r, [web.req[r] EXCEPT
                        !.pc = "adding", !.queried = TRUE,
                        !.events = [i \in 1..n |-> i]])
    /\ RouteUnchanged

\* one round of the loop of add_unified_events: self.markers.append(marker)
AddMarker(r) ==
    /\ web.req[r].pc = "adding"
    /\ web.req[r].next <= Len(web.req[r].events)
    /\ web' = [WithRequest(r, [web.req[r] EXCEPT !.next = @ + 1])
                  EXCEPT !.markers = Append(@, [req |-> r,
                                                n |-> web.req[r].events[web.req[r].next]])]
    /\ RouteUnchanged

\* mapping_service.get_map_data(latitude, longitude): self.markers[:max_markers]
GetMapData(r) ==
    /\ web.req[r].pc = "adding"
    /\ web.req[r].next > Len(web.req[r].events)
    /\ web' = WithRequest(r, [web.req[r] EXCEPT
                  !.pc = "mapped", !.markers = Take(web.markers, MaxMarkers)])
    /\ RouteUnchanged

\* 'total_events': len(mapping_service.get_all_markers()), and the 200
Respond(r) ==
    /\ web.req[r].pc = "mapped"
    /\ web' = WithRequest(r, [web.req[r] EXCEPT
                  !.pc = "responded", !.status = 200,
                  !.total_events = Len(web.markers)])
    /\ RouteUnchanged

NextRoute ==
    \E r \in Requests :
        \/ CheckCoordinates(r)
        \/ ClearMarkers(r)
        \/ SearchEvents(r)
        \/ AddMarker(r)
        \/ GetMapData(r)
        \/ Respond(r)

SpecRoute == InitRoute /\ [][NextRoute]_vars

\* no request has got past the coordinate check
NoneAccepted ==
    \A r \in Requests :
        \/ web.req[r].pc = "received"
        \/ web.req[r].pc = "responded" /\ web.req[r].status # 200

\* C16: a request whose coordinates are missing, not numbers or out of range
\* is answered with 400, no provider having been queried and the stored
\* markers being what they were; a request with valid coordinates is answered
\* with 200.
C16_InvalidRejectedWith400 ==
    /\ \A r \in Requests :
          web.req[r].pc = "responded" =>
              IF DenotesWithin(web.req[r].latitude, 90)
              THEN web.req[r].status = 200
              ELSE web.req[r].status = 400 /\ ~web.req[r].queried
    /\ NoneAccepted => web.markers = OwnMarkers("earlier", <<1>>)

\* C16 (whatever the status): a request with such coordinates is refused
\* with 400 or 500, untouched markers and no query; a valid one gets 200.
C16_InvalidRefused ==
    /\ \A r \in Requests :
          web.req[r].pc = "responded" =>
              IF DenotesWithin(web.req[r].latitude, 90)
              THEN web.req[r].status = 200
              ELSE web.req[r].status \in {400, 500} /\ ~web.req[r].queried
    /\ NoneAccepted => web.markers = OwnMarkers("earlier", <<1>>)

\* C19: the markers and total_events of a response are those of the
\* request's own search result, whatever the other request does meanwhile.
C19_OwnMarkersOnly ==
    \A r \in Requests :
        (web.req[r].pc = "responded" /\ web.req[r].status = 200) =>
            /\ web.req[r].markers = OwnMarkers(r, web.req[r].events)
            /\ web.req[r].total_events = Len(web.req[r].events)

\* C19 (one request at a time): a request served while the other is turned
\* away at the coordinate check reports its own result.
C19_AloneOwnMarkers ==
    \A r \in Requests :
        (/\ web.req[r].pc = "responded" /\ web.req[r].status = 200
         /\ \A q \in Requests \ {r} : web.req[q].status = 400) =>
            /\ web.req[r].markers = OwnMarkers(r, web.req[r].events)
            /\ web.req[r].total_events = Len(web.req[r].events)

-----------------------------------------------------------------------------
(* background_search.perform_background_search, time in whole seconds       *)

SearchTimeout == 10        \* search_timeout
SocialBudget == 8          \* the elapsed time after which no platform starts
TimeoutPerPlatform == 2    \* timeout_per_platform
QuickTimeout == 3          \* session.get(url, timeout=3)
RequestTimeout == 5        \* SEARCH_CONFIG TIMEOUT

Platforms == << "github", "linkedin", "twitter", "instagram", "youtube", "tiktok" >>

\* the longest a request for the platform takes: its timeout
PlatformTimeout(platform) ==
    IF platform = "github" THEN RequestTimeout ELSE QuickTimeout

\* a profile has handles on the first so many platforms, a location or none,
\* an activity or none; no request has been made
InitSearch ==
    /\ pc = "idle" /\ task = <<>> /\ taken = {} /\ clock = 0
    /\ all_events = <<>> /\ deduplicated_events = <<>>
    /\ ranked_events = <<>> /\ final_events = <<>>
    /\ env = <<>> /\ heap = <<>>
    /\ dd = BenchIdle /\ nm = BenchIdle /\ rk = BenchIdle
    /\ \E n \in 0..Len(Platforms), location \in {"", "Seattle, WA"},
          activity \in {"", "learn photography"} :
          web = [pc |-> "social", elapsed |-> 0,
                 social_handles |-> Take(Platforms, n),
                 location |-> location, activity |-> activity,
                 queries |-> 0]

\* one round of the loop of _search_social_media: the budget check, the
\* request (any duration up to its timeout), the check of the time it took
SearchPlatform ==
    /\ web.pc = "social" /\ web.social_handles # <<>>
    /\ IF web.elapsed > SocialBudget
       THEN web' = [web EXCEPT !.social_handles = <<>>]
       ELSE \E d \in 0..PlatformTimeout(Head(web.social_handles)) :
               web' = [web EXCEPT
                          !.elapsed = @ + d,
                          !.social_handles = IF d > TimeoutPerPlatform
                                             THEN <<>> ELSE Tail(@)]
    /\ RouteUnchanged

\* search_user_info after the social stage: the location stage starts when
\* there is a location and the limit has not passed
StartLocation ==
    /\ web.pc = "social" /\ web.social_handles = <<>>
    /\ web' = [web EXCEPT
                  !.pc = "location",
                  !.queries = IF web.location # "" /\ web.elapsed < SearchTimeout
                              THEN (IF web.activity # "" THEN 2 ELSE 1)
                              ELSE 0]
    /\ RouteUnchanged

\* one query of _search_location_info or _search_activity_info
Query ==
    /\ web.pc \in {"location", "activity"} /\ web.queries > 0
    /\ \E d \in 0..RequestTimeout :
          web' = [web EXCEPT !.elapsed = @ + d, !.queries = @ - 1]
    /\ RouteUnchanged

\* the activity stage starts when there is an activity and the limit has not
\* passed
StartActivity ==
    /\ web.pc = "location" /\ web.queries = 0
    /\ web' = [web EXCEPT
                  !.pc = "activity",
                  !.queries = IF web.activity # "" /\ web.elapsed < SearchTimeout
                              THEN (IF web.location # "" THEN 2 ELSE 1)
                              ELSE 0]
    /\ RouteUnchanged

\* search_user_info returns, perform_background_search summarises and returns
ReturnResults ==
    /\ web.pc = "activity" /\ web.queries = 0
    /\ web' = [web EXCEPT !.pc = "returned"]
    /\ RouteUnchanged

NextSearch ==
    \/ SearchPlatform
    \/ StartLocation
    \/ Query
    \/ StartActivity
    \/ ReturnResults

SpecSearch == InitSearch /\ [][NextSearch]_vars

\* C17: perform_background_search returns within the 10-second limit, for
\* every profile.
C17_ReturnsWithinLimit ==
    web.pc = "returned" => web.elapsed <= SearchTimeout

\* C17 (what the checks between the stages do bound): the search returns
\* in less than twice the limit.
C17_ReturnsWithinTwiceLimit ==
    web.pc = "returned" => web.elapsed < 2 * SearchTimeout

-----------------------------------------------------------------------------
(* user_profiling_service.UserProfile.add_interest                          *)

MaxAdds == 3

\* UserInterest(category, keywords, confidence, source, evidence): frequency
\* is left at its default of 1
UserInterest(category, keywords, confidence, source) ==
    [category |-> category, keywords |-> keywords, confidence |-> confidence,
     source |-> source, frequency |-> 1]

InterestPairs ==
    { <<"music", "user_input">>, <<"music", "search_social">>,
      <<"sports", "user_input">> }

KeywordLists == { <<"jazz">>, <<"rock">>, <<"jazz", "rock">>, <<"jazz", "jazz">> }

\* confidences in thousandths, above the extractor's floor of 0.2
Confidences == {300, 800}

Interests ==
    { UserInterest(p[1], k, c, p[2]) :
        p \in InterestPairs, k \in KeywordLists, c \in Confidences }

\* the index of the first interest of the list with the category and source
\* of the new one, 0 when there is none
FirstMatch(interests, interest) ==
    LET hits == { i \in 1..Len(interests) :
                    /\ interests[i].category = interest.category
                    /\ interests[i].source = interest.source }
    IN  IF hits = {} THEN 0 ELSE CHOOSE i \in hits : \A j \in hits : i <= j

\* list(set(keywords)): the distinct keywords, in an order the set decides
ListsOfSet(keywords) ==
    { s \in [1..Cardinality(Range(keywords)) -> Range(keywords)] :
        Range(s) = Range(keywords) }

\* the merge of add_interest into the existing interest
Merged(existing, interest, keywords) ==
    [existing EXCEPT
        !.keywords = keywords,
        !.confidence = IF interest.confidence > @ THEN interest.confidence ELSE @,
        !.frequency = @ + 1]

InitProfile ==
    /\ pc = "idle" /\ task = <<>> /\ taken = {} /\ clock = 0
    /\ all_events = <<>> /\ deduplicated_events = <<>>
    /\ ranked_events = <<>> /\ final_events = <<>>
    /\ env = <<>> /\ heap = <<>>
    /\ dd = BenchIdle /\ nm = BenchIdle /\ rk = BenchIdle
    /\ web = [pc |-> "profile", interests |-> <<>>, added |-> <<>>]

\* profile.add_interest(interest); added is the record of the calls
add_interest ==
    /\ web.pc = "profile" /\ Len(web.added) < MaxAdds
    /\ \E interest \in Interests :
          LET i == FirstMatch(web.interests, interest)
          IN  IF i = 0
              THEN web' = [web EXCEPT !.interests = Append(@, interest),
                                      !.added = Append(@, interest)]
              ELSE \E keywords \in ListsOfSet(web.interests[i].keywords
                                              \o interest.keywords) :
                      web' = [web EXCEPT
                                 !.interests[i] = Merged(@, interest, keywords),
                                 !.added = Append(@, interest)]
    /\ RouteUnchanged

NextProfile == add_interest

SpecProfile == InitProfile /\ [][NextProfile]_vars

SamePair(a, pair) == a.category = pair[1] /\ a.source = pair[2]

\* what the claim says of the interests held for one pair
PairMerged(pair) ==
    LET calls == SelectSeq(web.added, LAMBDA a : SamePair(a, pair))
        held == SelectSeq(web.interests, LAMBDA a : SamePair(a, pair))
    IN  /\ Len(held) = IF calls = <<>> THEN 0 ELSE 1
        /\ calls # <<>> =>
              /\ \A i \in 1..Len(calls) : held[1].confidence >= calls[i].confidence
              /\ \E i \in 1..Len(calls) : held[1].confidence = calls[i].confidence
              /\ Range(held[1].keywords) =
                    UNION { Range(calls[i].keywords) : i \in 1..Len(calls) }
              /\ Len(held[1].keywords) = Cardinality(Range(held[1].keywords))
              /\ held[1].frequency = Len(calls)

C18_MergedWhenKeywordsDistinct ==
    (\A i \in 1..Len(web.added) :
        Len(web.added[i].keywords) = Cardinality(Range(web.added[i].keywords)))
    => \A pair \in InterestPairs : PairMerged(pair)

-----------------------------------------------------------------------------
(* The provider adapters: from the records of an upstream payload to Events *)

MaxPayload == 2

Coordinate(type, num, v) == [type |-> type, num |-> num, v |-> v]

\* a coordinate of an upstream record: absent, "0", in range, out of range,
\* not a number, an integer beyond the float range, "nan"
RecordLatitudes ==
    { Coordinate("NoneType", "none", 0), Coordinate("str", "finite", 0),
      Coordinate("str", "finite", 90), Coordinate("str", "finite", 91),
      Coordinate("str", "text", 0), Coordinate("int", "huge", 0),
      Coordinate("str", "nan", 0) }

RecordLongitudes ==
    { Coordinate("NoneType", "none", 0), Coordinate("str", "finite", 0),
      Coordinate("str", "finite", 90) }

\* the records of a payload: an object with its coordinates; an object
\* without a venue; an object whose id is a JSON array; a value that is not
\* an object
UpstreamRecords ==
    { [shape |-> "dict", id |-> "str", venue |-> TRUE,
       latitude |-> lat, longitude |-> lon] :
        lat \in RecordLatitudes, lon \in RecordLongitudes }
    \cup { [shape |-> "dict", id |-> "str", venue |-> FALSE,
            latitude |-> Coordinate("NoneType", "none", 0),
            longitude |-> Coordinate("NoneType", "none", 0)],
           [shape |-> "dict", id |-> "list", venue |-> TRUE,
            latitude |-> Coordinate("str", "finite", 90),
            longitude |-> Coordinate("str", "finite", 90)],
           [shape |-> "str", id |-> "str", venue |-> FALSE,
            latitude |-> Coordinate("NoneType", "none", 0),
            longitude |-> Coordinate("NoneType", "none", 0)] }

\* the location of the search, which both adapters accept
SearchLocation ==
    [latitude |-> Coordinate("float", "finite", 45),
     longitude |-> Coordinate("float", "finite", -75)]

\* bool(x) of a value read from JSON
Truthy(x) ==
    CASE x.type = "NoneType" -> FALSE
      [] x.type = "list" -> TRUE
      [] x.type = "str" -> x.num # "empty"
      [] OTHER -> ~(x.num = "finite" /\ x.v = 0)

NoEvent == [emitted |-> FALSE]

\* Event(id=..., latitude=..., longitude=...) made of record n of the payload
EmittedEvent(n, id, latitude, longitude) ==
    [emitted |-> TRUE, n |-> n, id |-> id,
     latitude |-> [num |-> latitude.num, v |-> latitude.v],
     longitude |-> [num |-> longitude.num, v |-> longitude.v]]

\* TicketmasterService._parse_single_event: None without a venue, when a
\* coordinate does not convert, when a coordinate is 0 (an absent one reads
\* as 0), and on any exception
_parse_single_event(n, event_data) ==
    IF event_data.shape # "dict" \/ ~event_data.venue THEN NoEvent
    ELSE LET latitude == ToFloat(event_data.latitude)
             longitude == ToFloat(event_data.longitude)
         IN  IF latitude.raises # "" \/ longitude.raises # "" THEN NoEvent
             ELSE IF ~Truthy(Coordinate("float", latitude.num, latitude.v))
                     \/ ~Truthy(Coordinate("float", longitude.num, longitude.v))
                  THEN NoEvent
             ELSE EmittedEvent(n, event_data.id, latitude, longitude)

\* the Events a parse loop appends, in the order of the records
Appended(parsed) ==
    LET kept == SelectSeq([i \in DOMAIN parsed |-> i], LAMBDA i : parsed[i].emitted)
    IN  [k \in DOMAIN kept |-> parsed[kept[k]]]

_parse_events(events_data) ==
    Appended([i \in DOMAIN events_data |-> _parse_single_event(i, events_data[i])])

\* TicketmasterService.search_events after the parse: {event.id: event ...}
\* raises on an id that cannot be hashed, and the handler returns []
UniqueById(events) ==
    IF \E i \in DOMAIN events : events[i].id = "list" THEN <<>> ELSE events

\* AllEventsService._convert_to_event_format: the coordinates of the venue,
\* or those of the search when one of them is absent, empty or 0 or does
\* not convert; None on any other exception
_convert_to_event_format(n, event_data, location) ==
    IF event_data.shape # "dict" THEN NoEvent
    ELSE LET own == Truthy(event_data.latitude) /\ Truthy(event_data.longitude)
             venue_lat == IF own THEN event_data.latitude ELSE location.latitude
             venue_lon == IF own THEN event_data.longitude ELSE location.longitude
             lat == ToFloat(venue_lat)
             lon == ToFloat(venue_lon)
             raised == IF lat.raises # "" THEN lat.raises ELSE lon.raises
         IN  IF raised = "" THEN EmittedEvent(n, "str", lat, lon)
             ELSE IF raised \in {"ValueError", "TypeError"}
                  THEN EmittedEvent(n, "str", ToFloat(location.latitude),
                                    ToFloat(location.longitude))
             ELSE NoEvent

\* the conversion loop of AllEventsService.search_events
ConvertAll(raw_events, location) ==
    Appended([i \in DOMAIN raw_events |->
                 _convert_to_event_format(i, raw_events[i], location)])

InitParse ==
    /\ pc = "idle" /\ task = <<>> /\ taken = {} /\ clock = 0
    /\ all_events = <<>> /\ deduplicated_events = <<>>
    /\ ranked_events = <<>> /\ final_events = <<>>
    /\ env = <<>> /\ heap = <<>>
    /\ dd = BenchIdle /\ nm = BenchIdle /\ rk = BenchIdle
    /\ \E n \in 0..MaxPayload :
          \E payload \in [1..n -> UpstreamRecords] :
             web = [pc |-> "payload", payload |-> payload, parsed |-> <<>>,
                    ticketmaster |-> <<>>, allevents |-> <<>>]

\* _parse_events on the payload
ParseTicketmaster ==
    /\ web.pc = "payload"
    /\ web' = [web EXCEPT !.pc = "parsed", !.parsed = _parse_events(web.payload)]
    /\ RouteUnchanged

\* the rest of TicketmasterService.search_events on the parsed events
ReturnTicketmaster ==
    /\ web.pc = "parsed"
    /\ web' = [web EXCEPT !.pc = "ticketmaster",
                          !.ticketmaster = UniqueById(web.parsed)]
    /\ RouteUnchanged

\* AllEventsService.search_events on the same payload
SearchAllEvents ==
    /\ web.pc = "ticketmaster"
    /\ web' = [web EXCEPT !.pc = "allevents",
                          !.allevents = ConvertAll(web.payload, SearchLocation)]
    /\ RouteUnchanged

NextParse == ParseTicketmaster \/ ReturnTicketmaster \/ SearchAllEvents

SpecParse == InitParse /\ [][NextParse]_vars

\* an object with a string id, a venue and both coordinates in range
WellFormed(record) ==
    /\ record.shape = "dict" /\ record.id = "str" /\ record.venue
    /\ DenotesWithin(record.latitude, 90)
    /\ DenotesWithin(record.longitude, 180)

\* the records of the payload that the list holds an Event of
EmittedOf(events) == { events[k].n : k \in DOMAIN events }

WellFormedRecords == { i \in DOMAIN web.payload : WellFormed(web.payload[i]) }

\* C22: of a payload that mixes well-formed and malformed records, each
\* adapter returns an Event for every well-formed record, whatever the other
\* records are.
C22_WellFormedAllReturned ==
    /\ web.pc \in {"parsed", "ticketmaster", "allevents"} =>
          WellFormedRecords \subseteq EmittedOf(web.parsed)
    /\ web.pc \in {"ticketmaster", "allevents"} =>
          WellFormedRecords \subseteq EmittedOf(web.ticketmaster)
    /\ web.pc = "allevents" =>
          WellFormedRecords \subseteq EmittedOf(web.allevents)

\* C22 (the two loops alone, coordinates other than 0): every well-formed
\* record whose coordinates are not 0 has its Event in the list
\* _parse_events returns and in the list AllEvents returns.
C22_LoopsKeepNonZeroRecords ==
    LET nonzero == { i \in WellFormedRecords :
                       /\ web.payload[i].latitude.v # 0
                       /\ web.payload[i].longitude.v # 0 }
    IN  /\ web.pc \in {"parsed", "ticketmaster", "allevents"} =>
              nonzero \subseteq EmittedOf(web.parsed)
        /\ web.pc = "allevents" =>
              WellFormedRecords \subseteq EmittedOf(web.allevents)

\* the event carries the coordinates of record n, and they are in range
CarriesOwn(event) ==
    LET record == web.payload[event.n]
    IN  /\ DenotesWithin(record.latitude, 90)
        /\ DenotesWithin(record.longitude, 180)
        /\ event.latitude = [num |-> "finite", v |-> record.latitude.v]
        /\ event.longitude = [num |-> "finite", v |-> record.longitude.v]

\* C23: every Event an adapter emits carries the coordinates of its own
\* record, latitude within -90..90 and longitude within -180..180; a record
\* whose coordinates are absent, not numbers or out of range gives no Event.
C23_OwnCoordinatesInRange ==
    /\ web.pc \in {"parsed", "ticketmaster", "allevents"} =>
          \A k \in DOMAIN web.parsed : CarriesOwn(web.parsed[k])
    /\ web.pc = "allevents" =>
          \A k \in DOMAIN web.allevents : CarriesOwn(web.allevents[k])

\* C23 (what the Ticketmaster parser does ensure): its Events carry the
\* numbers of their own records, neither of them 0.
C23_TicketmasterCarriesOwnNumbers ==
    web.pc \in {"parsed", "ticketmaster", "allevents"} =>
        \A k \in DOMAIN web.parsed :
            LET record == web.payload[web.parsed[k].n]
                lat == ToFloat(record.latitude)
                lon == ToFloat(record.longitude)
            IN  /\ lat.raises = "" /\ lon.raises = ""
                /\ web.parsed[k].latitude = [num |-> lat.num, v |-> lat.v]
                /\ web.parsed[k].longitude = [num |-> lon.num, v |-> lon.v]
                /\ ~(lat.num = "finite" /\ lat.v = 0)
                /\ ~(lon.num = "finite" /\ lon.v = 0)

-----------------------------------------------------------------------------
(* Time relevance: the event's date against datetime.now()                  *)

MaxDaysAhead == 32
HoursPerDay == 24
ThisWeekScore == 1000     \* return 1.0
PastEventScore == 100     \* return 0.1

\* (event_dt - now).days: event_dt is midnight of the event's date, now the
\* current time; .days of a timedelta is the floor of the difference in days.
\* A date is a number of days from today, or 'TBA' (iso FALSE); the time of
\* day is the hour, hour 0 standing for midnight itself.
DaysDiff(date, hour) == (date.day * HoursPerDay - hour) \div HoursPerDay

\* UnifiedEventsService._calculate_time_relevance, in thousandths
_calculate_time_relevance(date, hour) ==
    IF ~date.iso THEN 300
    ELSE LET days_diff == DaysDiff(date, hour)
         IN  IF days_diff < 0 THEN PastEventScore
             ELSE IF days_diff <= 7 THEN ThisWeekScore
             ELSE IF days_diff <= 14 THEN 800
             ELSE IF days_diff <= 30 THEN 600
             ELSE 400

\* the time boost of TicketmasterService._apply_traditional_scoring
TimeBoost(date, hour) ==
    IF ~date.iso THEN 0
    ELSE LET days_ahead == DaysDiff(date, hour)
         IN  IF 0 <= days_ahead /\ days_ahead <= 7 THEN 100
             ELSE IF 0 <= days_ahead /\ days_ahead <= 30 THEN 50
             ELSE 0

DateOf(day) == [iso |-> TRUE, day |-> day]

EventDates == { DateOf(day) : day \in -2..MaxDaysAhead } \cup {[iso |-> FALSE, day |-> 0]}

InitTime ==
    /\ pc = "idle" /\ task = <<>> /\ taken = {} /\ clock = 0
    /\ all_events = <<>> /\ deduplicated_events = <<>>
    /\ ranked_events = <<>> /\ final_events = <<>>
    /\ env = <<>> /\ heap = <<>>
    /\ dd = BenchIdle /\ nm = BenchIdle /\ rk = BenchIdle
    /\ \E date \in EventDates, hour \in 0..(HoursPerDay - 1) :
          web = [pc |-> "event", date |-> date, hour |-> hour,
                 time_relevance |-> 0, boost |-> 0]

\* both scorers look at the event at the same time of day
ScoreTime ==
    /\ web.pc = "event"
    /\ web' = [web EXCEPT !.pc = "scored",
                          !.time_relevance = _calculate_time_relevance(web.date, web.hour),
                          !.boost = TimeBoost(web.date, web.hour)]
    /\ RouteUnchanged

NextTime == ScoreTime

SpecTime == InitTime /\ [][NextTime]_vars

\* C25: the time-relevance score is the highest for every event dated from
\* today through 7 days ahead, does not increase as the date moves further
\* into the future, and has its near-zero value only for events dated
\* before today.
C25_ThisWeekHighest ==
    (web.pc = "scored" /\ web.date.iso) =>
        /\ (0 <= web.date.day /\ web.date.day <= 7) => web.time_relevance = ThisWeekScore
        /\ \A later \in web.date.day..MaxDaysAhead :
              web.date.day >= 0 =>
                  _calculate_time_relevance(DateOf(later), web.hour) <= web.time_relevance
        /\ web.time_relevance = PastEventScore => web.date.day < 0

\* C25 (from tomorrow on): events dated tomorrow through 7 days ahead have
\* the highest score, later dates never a higher one, and every event dated
\* before today has the near-zero one; the Ticketmaster boost is largest on
\* the same days.
C25_FromTomorrowOn ==
    (web.pc = "scored" /\ web.date.iso) =>
        /\ (1 <= web.date.day /\ web.date.day <= 7) =>
              web.time_relevance = ThisWeekScore /\ web.boost = 100
        /\ \A later \in web.date.day..MaxDaysAhead :
              web.date.day >= 1 =>
                  /\ _calculate_time_relevance(DateOf(later), web.hour) <= web.time_relevance
                  /\ TimeBoost(DateOf(later), web.hour) <= web.boost
        /\ web.date.day < 0 => web.time_relevance = PastEventScore

-----------------------------------------------------------------------------
(* AdvancedInterestExtractor: the interests a text gives for one category   *)

MaxMatches == 7
SportsKeywords == 25       \* len(interest_taxonomy['sports']['keywords'])
MinConfidence == 200       \* if confidence > 0.2

\* a text, as far as the category 'sports' sees it: how many of its keywords
\* occur, how many of its venues, how many high-engagement patterns, and
\* whether the text says 'hate'
Texts ==
    [matches : 0..MaxMatches, venues : 0..2, engagement : 0..2, hate : BOOLEAN]

\* _calculate_confidence in thousandths: the share of the keywords matched,
\* 0.3 per high-engagement pattern, 0.1 per venue, -0.8 * 0.1 for 'hate',
\* capped at 1.0
_calculate_confidence(text) ==
    Min((text.matches * 1000) \div SportsKeywords
            + 300 * text.engagement + 100 * text.venues
            - (IF text.hate THEN 80 ELSE 0),
        1000)

\* the part of extract_interests for the category: the interests appended,
\* each its confidence
extract_interests(text) ==
    IF text.matches > 0 /\ _calculate_confidence(text) > MinConfidence
    THEN << _calculate_confidence(text) >>
    ELSE << >>

InitInterest ==
    /\ pc = "idle" /\ task = <<>> /\ taken = {} /\ clock = 0
    /\ all_events = <<>> /\ deduplicated_events = <<>>
    /\ ranked_events = <<>> /\ final_events = <<>>
    /\ env = <<>> /\ heap = <<>>
    /\ dd = BenchIdle /\ nm = BenchIdle /\ rk = BenchIdle
    /\ \E text \in Texts : web = [pc |-> "text", text |-> text, interests |-> <<>>]

Extract ==
    /\ web.pc = "text"
    /\ web' = [web EXCEPT !.pc = "extracted", !.interests = extract_interests(web.text)]
    /\ RouteUnchanged

NextInterest == Extract

SpecInterest == InitInterest /\ [][NextInterest]_vars

\* C26: an interest is returned for the category exactly when a keyword
\* occurs and the confidence is not below 0.2 (0.2 itself is kept), and a
\* returned confidence is at most 1.0.
C26_KeptFromThreshold ==
    web.pc = "extracted" =>
        /\ web.interests # <<>> <=>
              (web.text.matches > 0 /\ _calculate_confidence(web.text) >= MinConfidence)
        /\ \A i \in DOMAIN web.interests : web.interests[i] <= 1000

\* C26 (above the threshold): an interest is returned exactly when a keyword
\* occurs and the confidence is above 0.2; it is at most 1.0.
C26_KeptAboveThreshold ==
    web.pc = "extracted" =>
        /\ web.interests # <<>> <=>
              (web.text.matches > 0 /\ _calculate_confidence(web.text) > MinConfidence)
        /\ \A i \in DOMAIN web.interests :
              web.interests[i] = _calculate_confidence(web.text) /\ web.interests[i] <= 1000

-----------------------------------------------------------------------------
(* enhanced_background_search.perform_enhanced_background_search, and the   *)
(* /process route that calls it                                             *)

SignificantPattern == 300    \* if score > 0.3

\* the activity texts: none, and texts in which none or some of the
\* indicators of a pattern occur (the share that occurs, in thousandths)
ActivityTexts ==
    { [empty |-> TRUE, social |-> 0, learning |-> 0] }
    \cup [empty : {FALSE}, social : {0, 500}, learning : {0, 500}]

\* extract_behavioral_patterns: a score for every pattern type, and for
\* 'time_patterns' a dict of scores, whatever the text
extract_behavioral_patterns(text) ==
    << [pattern |-> "social_preference", type |-> "float", score |-> text.social],
       [pattern |-> "learning_oriented", type |-> "float", score |-> text.learning],
       [pattern |-> "time_patterns", type |-> "dict", score |-> 0] >>

\* _generate_recommendation_context: `score > 0.3` on every item of
\* behavioral_patterns; a dict on the left raises TypeError
_generate_recommendation_context(behavioral_patterns) ==
    IF \E i \in DOMAIN behavioral_patterns : behavioral_patterns[i].type = "dict"
    THEN [raises |-> "TypeError", behavioral_preferences |-> {}]
    ELSE [raises |-> "",
          behavioral_preferences |->
              { behavioral_patterns[i].pattern :
                  i \in { j \in DOMAIN behavioral_patterns :
                            behavioral_patterns[j].score > SignificantPattern } }]

InitEnhanced ==
    /\ pc = "idle" /\ task = <<>> /\ taken = {} /\ clock = 0
    /\ all_events = <<>> /\ deduplicated_events = <<>>
    /\ ranked_events = <<>> /\ final_events = <<>>
    /\ env = <<>> /\ heap = <<>>
    /\ dd = BenchIdle /\ nm = BenchIdle /\ rk = BenchIdle
    /\ \E activity \in ActivityTexts, location \in {"", "Seattle, WA"},
          handles \in 0..2 :
          web = [pc |-> "profile", activity |-> activity, location |-> location,
                 handles |-> handles, behavioral_patterns |-> <<>>,
                 insights |-> 0, failed |-> FALSE, result |-> "", summaries |-> ""]

\* search_enhanced_user_info: the patterns of the activity text, then the
\* searches; a search that fails is logged inside and adds nothing
SearchEnhanced ==
    /\ web.pc = "profile"
    /\ \E found \in 0..1, failed \in BOOLEAN :
          /\ (web.handles = 0 /\ web.location = "" /\ web.activity.empty)
                => (found = 0 /\ ~failed)
          /\ failed => found = 0
          /\ web' = [web EXCEPT
                        !.pc = "searched",
                        !.behavioral_patterns =
                            IF web.activity.empty THEN <<>>
                            ELSE extract_behavioral_patterns(web.activity),
                        !.insights = found, !.failed = failed]
    /\ RouteUnchanged

\* generate_personalization_summary and the return of
\* perform_enhanced_background_search; an exception leaves the function
Summarise ==
    /\ web.pc = "searched"
    /\ LET context == _generate_recommendation_context(web.behavioral_patterns)
       IN  web' = [web EXCEPT
                      !.pc = IF context.raises = "" THEN "returned" ELSE "raised",
                      !.result = IF context.raises = "" THEN "enhanced_personalization"
                                 ELSE context.raises]
    /\ RouteUnchanged

\* process_request: the summaries of the result, or the fallback summaries
\* in its except branch
ProcessRequest ==
    /\ web.pc \in {"returned", "raised"}
    /\ web' = [web EXCEPT !.pc = "responded",
                          !.summaries = IF web.pc = "returned" THEN "summaries"
                                        ELSE "fallback"]
    /\ RouteUnchanged

NextEnhanced == SearchEnhanced \/ Summarise \/ ProcessRequest

SpecEnhanced == InitEnhanced /\ [][NextEnhanced]_vars

\* C27: perform_enhanced_background_search returns the enhanced
\* personalization data for every profile and does not raise, so /process
\* falls back only when a search itself failed.
C27_ReturnsForEveryProfile ==
    /\ web.pc # "raised"
    /\ web.pc \in {"returned", "responded"} => web.result = "enhanced_personalization"
    /\ (web.pc = "responded" /\ web.summaries = "fallback") => web.failed

\* C27 (profiles without an activity text): the function returns the data
\* and /process uses its summaries.
C27_ReturnsWithoutActivity ==
    web.activity.empty =>
        /\ web.pc # "raised"
        /\ web.pc \in {"returned", "responded"} => web.result = "enhanced_personalization"
        /\ web.pc = "responded" => web.summaries = "summaries"

-----------------------------------------------------------------------------
(* integration_utilities.RateMonitor, one configured API, shared by threads *)

MaxTime == 3        \* time.time() runs over 0..MaxTime
MaxRecorded == 4    \* at most this many record_call invocations
CallLimit == 2      \* rate_limits[api_name]['calls']
Window == 2         \* rate_limits[api_name]['window']

Threads == {"t1", "t2"}

\* the call times of the list that lie inside the window ending now
RecentCalls(calls, current_time) ==
    SelectSeq(calls, LAMBDA call_time : current_time - call_time < Window)

InitMonitor ==
    /\ pc = "idle" /\ task = <<>> /\ taken = {} /\ clock = 0
    /\ all_events = <<>> /\ deduplicated_events = <<>>
    /\ ranked_events = <<>> /\ final_events = <<>>
    /\ env = <<>> /\ heap = <<>>
    /\ dd = BenchIdle /\ nm = BenchIdle /\ rk = BenchIdle
    /\ web = [now |-> 0, api_calls |-> <<>>, recorded |-> <<>>,
              at |-> [th \in Threads |-> "idle"],
              kept |-> [th \in Threads |-> <<>>]]

\* time passes
TickMonitor ==
    /\ web.now < MaxTime
    /\ web' = [web EXCEPT !.now = @ + 1]
    /\ RouteUnchanged

\* check_rate_limit, first half: the list comprehension over api_calls
FilterCalls(th) ==
    /\ web.at[th] = "idle"
    /\ web' = [web EXCEPT !.at[th] = "filtered",
                          !.kept[th] = RecentCalls(web.api_calls, web.now)]
    /\ RouteUnchanged

\* check_rate_limit, second half: the list is stored and its length compared
check_rate_limit(th) ==
    /\ web.at[th] = "filtered"
    /\ web' = [web EXCEPT
                  !.api_calls = web.kept[th],
                  !.at[th] = IF Len(web.kept[th]) < CallLimit
                             THEN "allowed" ELSE "idle",
                  !.kept[th] = <<>>]
    /\ RouteUnchanged

\* record_call, made only right after check_rate_limit returned True
record_call(th) ==
    /\ web.at[th] = "allowed"
    /\ Len(web.recorded) < MaxRecorded
    /\ web' = [web EXCEPT !.api_calls = Append(@, web.now),
                          !.recorded = Append(@, web.now),
                          !.at[th] = "idle"]
    /\ RouteUnchanged

NextMonitor ==
    \/ TickMonitor
    \/ \E th \in Threads : FilterCalls(th)
    \/ \E th \in Threads : check_rate_limit(th)
    \/ \E th \in Threads : record_call(th)

SpecMonitor == InitMonitor /\ [][NextMonitor]_vars

\* the record_call invocations whose time lies in the window starting at start
RecordedWithin(start) ==
    { i \in DOMAIN web.recorded :
        start <= web.recorded[i] /\ web.recorded[i] < start + Window }

\* C28: with record_call made only right after check_rate_limit returned
\* True, the calls recorded within any sliding window never exceed the
\* configured limit, also with several threads on one RateMonitor.
C28_WindowWithinLimit ==
    \A start \in 0..MaxTime : Cardinality(RecordedWithin(start)) <= CallLimit

\* C28 (one caller): in every run in which only thread t1 uses the
\* monitor, the calls recorded within any sliding window stay within the
\* limit.
C28_OneThreadWithinLimit ==
    [](web.at["t2"] = "idle") => []C28_WindowWithinLimit

-----------------------------------------------------------------------------
(* the location check at the head of both adapters' search_events, with an  *)
(* API key configured                                                       *)

\* search_events up to its first request: "query" when it goes on to the
\* upstream request, "[]" when it returns the empty list, else the exception
\* float() raised past its except clause.  The head is the same in both
\* adapters
LocationCheck(latitude, longitude) ==
    LET lat == IF latitude.type = "NoneType" THEN [raises |-> ""] ELSE ToFloat(latitude)
        lon == IF longitude.type = "NoneType" THEN [raises |-> ""] ELSE ToFloat(longitude)
        raised == IF lat.raises # "" THEN lat.raises ELSE lon.raises
        IsZero(x, f) == x.type = "NoneType" \/ (f.num = "finite" /\ f.v = 0)
    IN  IF raised \in {"ValueError", "TypeError"} THEN "[]"
        ELSE IF raised # "" THEN raised
        ELSE IF IsZero(latitude, lat) \/ IsZero(longitude, lon) THEN "[]"
        ELSE "query"

InitLocation ==
    /\ pc = "idle" /\ task = <<>> /\ taken = {} /\ clock = 0
    /\ all_events = <<>> /\ deduplicated_events = <<>>
    /\ ranked_events = <<>> /\ final_events = <<>>
    /\ env = <<>> /\ heap = <<>>
    /\ dd = BenchIdle /\ nm = BenchIdle /\ rk = BenchIdle
    /\ \E latitude \in CoordinateValues, longitude \in CoordinateValues :
          web = [latitude |-> latitude, longitude |-> longitude,
                 accepted |-> "", outcome |-> [a \in Sources |-> ""]]

\* validate_coordinates on the pair
ValidateLocation ==
    /\ web.accepted = ""
    /\ web' = [web EXCEPT !.accepted = validate_coordinates(web.latitude, web.longitude)]
    /\ RouteUnchanged

\* search_events of one adapter on the pair
SearchAdapter(a) ==
    /\ web.outcome[a] = ""
    /\ web' = [web EXCEPT !.outcome[a] = LocationCheck(web.latitude, web.longitude)]
    /\ RouteUnchanged

NextLocation ==
    \/ ValidateLocation
    \/ \E a \in Sources : SearchAdapter(a)

SpecLocation == InitLocation /\ [][NextLocation]_vars

\* C29: every pair validate_coordinates accepts, latitude 0 or longitude 0
\* included, makes both adapters go on to the upstream query.
C29_AcceptedPairQueried ==
    web.accepted = "True" =>
        \A a \in Sources : web.outcome[a] \in {"", "query"}

\* C29 (off the equator and the prime meridian): an accepted pair with both
\* values different from 0 makes both adapters query upstream.
C29_AcceptedNonZeroQueried ==
    (web.accepted = "True" /\ web.latitude.v # 0 /\ web.longitude.v # 0) =>
        \A a \in Sources : web.outcome[a] \in {"", "query"}

-----------------------------------------------------------------------------
(* Relaxation bench: _final_ranking_and_filtering on lists of events that   *)
(* carry a relevance_score and a prompt_relevance factor                    *)

MaxRelaxLen == 5

\* a score under the relaxed floor and one over the strict floor
RelaxScores == {50, 900}

\* no prompt_relevance (0 is what the lookup defaults to), and one over the
\* floor of the first filter
PromptScores == {0, 500}

InitRelax ==
    /\ PipelineIdle
    /\ dd = BenchIdle
    /\ nm = BenchIdle
    /\ \E n \in 0..MaxRelaxLen :
       \E scores \in [1..n -> RelaxScores], prompts \in [1..n -> PromptScores] :
          /\ heap = [i \in 1..n |->
                       [PricedCandidate(i, scores[i]) EXCEPT
                           !.personalization_factors =
                               IF prompts[i] = 0 THEN {}
                               ELSE {[key |-> "prompt_relevance",
                                      value |-> prompts[i]]}]]
          /\ rk = [pc |-> "ranked", events |-> [i \in 1..n |-> i],
                   activity |-> <<>>, available |-> FALSE, api |-> ApiUnused,
                   out |-> [i \in 1..n |-> i], final |-> <<>>]

NextRelax == FilterRanked

SpecRelax == InitRelax /\ [][NextRelax]_vars

C30_RelaxedKeepsScored ==
    rk.pc = "final" =>
        \A o \in Range(rk.out) :
            heap[o].relevance_score > StrictScoreFloor => o \in Range(rk.final)

\* C30 (the lists of the pipeline): every event of the ranked list that
\* passes the first filter is in the list search_events returns.
C30_RelaxedKeepsStrict ==
    pc = "done" =>
        \A o \in Range(ranked_events) :
            PassesStrict(heap[o]) => o \in Range(final_events)

\* C30 (why the pipeline does not show the loss): no event reaches the final
\* filter with a prompt_relevance factor, the only code that writes one
\* being the rule-based loop.
C30_NoPromptRelevance ==
    pc \in {"final", "done"} =>
        \A o \in Range(ranked_events) :
            FactorGet(heap[o].personalization_factors, "prompt_relevance", 0) = 0

=============================================================================
